---- MODULE Spec2Model ----
(***************************************************************************)
(* FTAM server session engine (src/src/Serveur.py): one client connection, *)
(* its session_state dictionary, the data directory it works on and the    *)
(* file objects the session opens for uploads.                             *)
(*                                                                         *)
(* File system: POSIX semantics.  An open file object stays with its file  *)
(* when the file is renamed and survives its removal (its bytes are then   *)
(* visible to no later command); a file opened in mode 'ab' always writes  *)
(* at the end of the file, a file opened in mode 'wb' at its own position. *)
(*                                                                         *)
(* Environment: file-system calls succeed, except the write/flush of       *)
(* UPLOAD_DATA, which may raise after any prefix of the chunk has reached  *)
(* the disk (the "disk failure mid-chunk" of the protocol's error model),  *)
(* and the reads of DOWNLOAD, any of which may raise.                       *)
(*                                                                         *)
(* Client (src/src/Client.py): upload_file, download_file and              *)
(* download_data, one step per command sent or line received, composed     *)
(* with the server's handler of that command; a connection may be closed   *)
(* by either end in the middle of a call.                                  *)
(*                                                                         *)
(* Threads: start() runs handle_client in a thread per connection; the     *)
(* threads share the data directory and nothing else.  Where two sessions  *)
(* are followed, the variables are those of the thread that runs and       *)
(* "others" keeps the rest.                                                *)
(***************************************************************************)
EXTENDS Integers, Sequences, FiniteSets, TLC

\* ------------------------------------------------------------------ bounds
\* longest file content the model lets a command produce
MaxLen == 2
\* largest transfer_offset the model lets UPLOAD_DATA reach
MaxOffset == 2
\* most file objects a session leaves open with nothing referring to them
MaxLeaked == 1

\* ------------------------------------------------------- program constants
\* BLOCK_SIZE of Serveur.py, scaled down from 512 so that a file spans
\* several blocks within MaxLen
BLOCK_SIZE == 2
\* the newline byte WRITE appends after the data, and the space byte that
\* " ".join puts between the words of a line
NL == 10
SP == 32

None == "None"
Names == {"a", "offset=1"}

\* ------------------------------------------------------------ hex codec
HexDigits == <<"0", "1", "2", "3", "4", "5", "6", "7",
               "8", "9", "a", "b", "c", "d", "e", "f">>

\* the value of each hexadecimal digit
HexValues == [c \in {HexDigits[i] : i \in 1..16} |->
                 (CHOOSE i \in 1..16 : HexDigits[i] = c) - 1]

IsHexDigit(c) == c \in DOMAIN HexValues

HexVal(c) == HexValues[c]

\* sep.join(words): the words of the line after the verb, put together again
RECURSIVE Join(_, _)
Join(words, sep) ==
    IF words = <<>> THEN <<>>
    ELSE IF Len(words) = 1 THEN words[1]
    ELSE words[1] \o <<sep>> \o Join(Tail(words), sep)

\* bytes.fromhex: white space between two bytes is skipped, every byte is two
\* hexadecimal digits; anything else raises ValueError
RECURSIVE FromHex(_)
FromHex(s) ==
    IF s = <<>> THEN [ok |-> TRUE, bytes |-> <<>>]
    ELSE IF s[1] = " " THEN FromHex(Tail(s))
    ELSE IF Len(s) >= 2 /\ IsHexDigit(s[1]) /\ IsHexDigit(s[2])
         THEN LET rest == FromHex(SubSeq(s, 3, Len(s)))
              IN  [ok |-> rest.ok,
                   bytes |-> IF rest.ok
                             THEN <<16 * HexVal(s[1]) + HexVal(s[2])>> \o rest.bytes
                             ELSE <<>>]
         ELSE [ok |-> FALSE, bytes |-> <<>>]

\* ------------------------------------------------------------------ state
VARIABLES
    connected,      \* the client socket of handle_client is open
    session_state,  \* the session dictionary of handle_client
    dir,            \* DEFAULT_DIR: the names that exist
    data,           \* the bytes of each file of DEFAULT_DIR
    fobj,           \* the file object session_state['transfer_file'] refers to
    leaked,         \* file objects this session opened and dropped, still open
    out,            \* the lines sent back for the last line handled
    client,         \* the local variables of the Client method that is running
    local,          \* the client's local file
    wire,           \* the lines sent to the client that it has not read yet
    others          \* the sessions of the other connections, when there are any

vars == <<connected, session_state, dir, data, fobj, leaked, out, client, local, wire,
          others>>

\* the client's side of the state
cvars == <<client, local, wire, others>>

\* an open file object: the name its file has now, whether it was opened in
\* append mode, and its position when it was not
FileObject(name, app, pos) == [at |-> name, app |-> app, pos |-> IF app THEN 0 ELSE pos]

\* fobj when the session refers to no file object
NoFile == FileObject(None, FALSE, 0)

\* a file object whose file was removed or replaced: its bytes are out of
\* every later command's reach
Unlinked == FileObject("unlinked", FALSE, 0)

\* the value of session_state['transfer_file'] when it is a file object
FileRef == "file object"

\* the dictionary handle_client creates for a new connection
NewSession ==
    [open_file            |-> None,
     phase                |-> "ASSOCIATED",
     transfer_in_progress |-> FALSE,
     transfer_offset      |-> 0,
     transfer_file        |-> None,
     error_flag           |-> FALSE,
     error_message        |-> ""]

\* one response line: its token, the detail after it, and the name, offset
\* and payload it carries
Resp(tok, detail, name, off, body) ==
    [tok |-> tok, detail |-> detail, name |-> name, off |-> off, body |-> body]

Erreur(detail) == Resp("ERREUR", detail, None, -1, <<>>)

\* ------------------------------------------------------------ file system
Exists(d, name) == d[name]

RECURSIVE Zeros(_)
Zeros(n) == IF n <= 0 THEN <<>> ELSE <<0>> \o Zeros(n - 1)

\* write(2) of bytes b at position p of content c (a gap reads as zero bytes)
WriteAt(c, p, b) ==
    LET base == IF p > Len(c) THEN c \o Zeros(p - Len(c)) ELSE c
        endp == p + Len(b)
    IN  SubSeq(base, 1, p) \o b \o
        (IF endp < Len(base) THEN SubSeq(base, endp + 1, Len(base)) ELSE <<>>)

\* os.remove(name), seen from file object f
AfterRemove(f, name) == IF f.at = name THEN Unlinked ELSE f

\* os.rename(old, new), seen from file object f: the file that was at new
\* is replaced, the file that was at old is now at new
AfterRename(f, old, new) ==
    IF old = new THEN f
    ELSE IF f.at = new THEN Unlinked
    ELSE IF f.at = old THEN [f EXCEPT !.at = new]
    ELSE f

\* the client's local file: whether os.path.exists, and its bytes
LocalFile(bytes) == [exists |-> TRUE, bytes |-> bytes]

NoLocal == [exists |-> FALSE, bytes |-> <<>>]

\* client when no method of Client is running
NoCall ==
    [pc |-> "idle", name |-> None, attempt |-> 0, offset |-> 0, start |-> 0,
     pos |-> 0, requests |-> 0, result |-> None, cuts |-> 0]

Init ==
    /\ connected = TRUE
    /\ session_state = NewSession
    /\ dir = [n \in Names |-> FALSE]
    /\ data = [n \in Names |-> <<>>]
    /\ fobj = NoFile
    /\ leaked = 0
    /\ out = <<Resp("FTAM_SERVER", "Association etablie", None, -1, <<>>)>>
    /\ client = NoCall
    /\ local = NoLocal
    /\ wire = <<>>
    /\ others = <<>>

\* ---------------------------------------------------------------- inputs
\* file contents are byte sequences; text is the sequence of its byte codes
\* ("H" = 72, "i" = 105)
TextWords == {<<72>>}

\* hexadecimal arguments of UPLOAD_DATA: "48", and one that bytes.fromhex
\* rejects
HexWords == {<<"4", "8">>, <<"4", "8", "z">>}

\* str.strip(): leading and trailing white space removed
IsSpace(b) == b \in {9, 10, 11, 12, 13, 28, 29, 30, 31, 32}

RECURSIVE LStrip(_)
LStrip(c) == IF c # <<>> /\ IsSpace(c[1]) THEN LStrip(Tail(c)) ELSE c

RECURSIVE RStrip(_)
RStrip(c) ==
    IF c # <<>> /\ IsSpace(c[Len(c)]) THEN RStrip(SubSeq(c, 1, Len(c) - 1)) ELSE c

Strip(c) == RStrip(LStrip(c))

\* os.listdir restricted to regular files, in the directory's order
RECURSIVE ListDir(_, _)
ListDir(d, order) ==
    IF order = <<>> THEN <<>>
    ELSE (IF Exists(d, order[1]) THEN <<order[1]>> ELSE <<>>) \o ListDir(d, Tail(order))

\* ----------------------------------------------------------- responses
\* what one handler call leaves behind: the response sent and the session
\* dictionary it returns; the connection stays as it is
Reply(r, ss) ==
    /\ out' = <<r>>
    /\ session_state' = ss
    /\ connected' = connected
    /\ leaked' = leaked

NoDisk == UNCHANGED <<dir, data, fobj>>

\* ------------------------------------------------ commands on named files
cmd_list(parts) ==
    /\ connected
    /\ NoDisk
    /\ Reply(Resp("LIST_OK", "", None, -1, ListDir(dir, <<"a", "offset=1">>)), session_state)

\* cmd_open without its test for a file already open
cmd_open_over(parts) ==
    /\ connected
    /\ NoDisk
    /\ IF Len(parts) < 2
       THEN Reply(Erreur("OPEN necessite un nom de fichier"), session_state)
       ELSE IF ~Exists(dir, parts[2])
       THEN Reply(Erreur("Le fichier n'existe pas"), session_state)
       ELSE Reply(Resp("OPEN_OK", "", parts[2], -1, <<>>),
                  [session_state EXCEPT !.open_file = parts[2],
                                        !.phase = "FILE_OPEN"])

\* cmd_open without its test of os.path.exists
cmd_open_unchecked(parts) ==
    /\ connected
    /\ NoDisk
    /\ IF session_state.open_file # None
       THEN Reply(Erreur("Un fichier est deja ouvert"), session_state)
       ELSE IF Len(parts) < 2
       THEN Reply(Erreur("OPEN necessite un nom de fichier"), session_state)
       ELSE Reply(Resp("OPEN_OK", "", parts[2], -1, <<>>),
                  [session_state EXCEPT !.open_file = parts[2],
                                        !.phase = "FILE_OPEN"])

cmd_open(parts) ==
    /\ connected
    /\ NoDisk
    /\ IF session_state.open_file # None
       THEN Reply(Erreur("Un fichier est deja ouvert"), session_state)
       ELSE IF Len(parts) < 2
       THEN Reply(Erreur("OPEN necessite un nom de fichier"), session_state)
       ELSE IF ~Exists(dir, parts[2])
       THEN Reply(Erreur("Le fichier n'existe pas"), session_state)
       ELSE Reply(Resp("OPEN_OK", "", parts[2], -1, <<>>),
                  [session_state EXCEPT !.open_file = parts[2],
                                        !.phase = "FILE_OPEN"])

\* cmd_create leaving the session without an open file
cmd_create_unopened(parts) ==
    /\ connected
    /\ IF session_state.open_file # None
       THEN NoDisk /\ Reply(Erreur("Un fichier est deja ouvert"), session_state)
       ELSE IF Len(parts) < 2
       THEN NoDisk /\ Reply(Erreur("CREATE necessite un nom de fichier"), session_state)
       ELSE /\ dir' = [dir EXCEPT ![parts[2]] = TRUE]
            /\ data' = [data EXCEPT ![parts[2]] = <<>>]
            /\ fobj' = fobj
            /\ Reply(Resp("CREATE_OK", "", parts[2], -1, <<>>), session_state)

\* open(filepath, 'w'): an existing file is truncated, a missing one created
cmd_create(parts) ==
    /\ connected
    /\ IF session_state.open_file # None
       THEN NoDisk /\ Reply(Erreur("Un fichier est deja ouvert"), session_state)
       ELSE IF Len(parts) < 2
       THEN NoDisk /\ Reply(Erreur("CREATE necessite un nom de fichier"), session_state)
       ELSE /\ dir' = [dir EXCEPT ![parts[2]] = TRUE]
            /\ data' = [data EXCEPT ![parts[2]] = <<>>]
            /\ fobj' = fobj
            /\ Reply(Resp("CREATE_OK", "", parts[2], -1, <<>>),
                     [session_state EXCEPT !.open_file = parts[2],
                                           !.phase = "FILE_OPEN"])

\* os.rename: new_name now names old_name's file, old_name disappears
cmd_rename(parts) ==
    /\ connected
    /\ IF Len(parts) < 3
       THEN NoDisk /\ Reply(Erreur("RENAME necessite un ancien et un nouveau nom"),
                            session_state)
       ELSE IF ~Exists(dir, parts[2])
       THEN NoDisk /\ Reply(Erreur("Le fichier n'existe pas"), session_state)
       ELSE LET old_name == parts[2]
                new_name == parts[3]
            IN
            /\ dir' = IF old_name = new_name THEN dir
                      ELSE [dir EXCEPT ![new_name] = TRUE, ![old_name] = FALSE]
            /\ data' = IF old_name = new_name THEN data
                       ELSE [data EXCEPT ![new_name] = data[old_name], ![old_name] = <<>>]
            /\ fobj' = AfterRename(fobj, old_name, new_name)
            /\ Reply(Resp("RENAME_OK", new_name, old_name, -1, <<>>), session_state)

\* cmd_delete emptying the directory
cmd_delete_everything(parts) ==
    /\ connected
    /\ IF Len(parts) < 2
       THEN NoDisk /\ Reply(Erreur("DELETE necessite un nom de fichier"), session_state)
       ELSE IF ~Exists(dir, parts[2])
       THEN NoDisk /\ Reply(Erreur("Le fichier n'existe pas"), session_state)
       ELSE /\ dir' = [n \in Names |-> FALSE]
            /\ data' = [n \in Names |-> <<>>]
            /\ fobj' = AfterRemove(fobj, parts[2])
            /\ Reply(Resp("DELETE_OK", "", parts[2], -1, <<>>), session_state)

cmd_delete(parts) ==
    /\ connected
    /\ IF Len(parts) < 2
       THEN NoDisk /\ Reply(Erreur("DELETE necessite un nom de fichier"), session_state)
       ELSE IF ~Exists(dir, parts[2])
       THEN NoDisk /\ Reply(Erreur("Le fichier n'existe pas"), session_state)
       ELSE /\ dir' = [dir EXCEPT ![parts[2]] = FALSE]
            /\ data' = [data EXCEPT ![parts[2]] = <<>>]
            /\ fobj' = AfterRemove(fobj, parts[2])
            /\ Reply(Resp("DELETE_OK", "", parts[2], -1, <<>>), session_state)

\* open(filepath, 'r') raises when the open file's name no longer exists
cmd_read(parts) ==
    /\ connected
    /\ NoDisk
    /\ IF session_state.open_file = None
       THEN Reply(Erreur("Aucun fichier ouvert"), session_state)
       ELSE IF ~Exists(dir, session_state.open_file)
       THEN Reply(Erreur("Lecture du fichier echouee"), session_state)
       ELSE Reply(Resp("READ_OK", "", session_state.open_file, -1,
                       Strip(data[session_state.open_file])),
                  session_state)

\* open(filepath, 'a'): a missing file is created, the data goes to the end
cmd_write(parts) ==
    /\ connected
    /\ IF session_state.open_file = None
       THEN NoDisk /\ Reply(Erreur("Aucun fichier ouvert"), session_state)
       ELSE IF Len(parts) < 2
       THEN NoDisk /\ Reply(Erreur("WRITE necessite des donnees a ecrire"), session_state)
       ELSE LET filename == session_state.open_file
                filedata == Join(Tail(parts), SP) \o <<NL>>
            IN
            /\ Len(data[filename]) + Len(filedata) <= MaxLen
            /\ dir' = [dir EXCEPT ![filename] = TRUE]
            /\ data' = [data EXCEPT ![filename] = data[filename] \o filedata]
            /\ fobj' = fobj
            /\ Reply(Resp("WRITE_OK", "", filename, -1, <<>>), session_state)

\* cmd_close leaving the name of the open file in place
cmd_close_keeps_name(parts) ==
    /\ connected
    /\ NoDisk
    /\ IF session_state.open_file = None
       THEN Reply(Erreur("Aucun fichier ouvert a fermer"), session_state)
       ELSE Reply(Resp("CLOSE_OK", "", session_state.open_file, -1, <<>>),
                  [session_state EXCEPT !.phase = "ASSOCIATED"])

\* cmd_close forgetting to reset the phase
cmd_close_keeps_phase(parts) ==
    /\ connected
    /\ NoDisk
    /\ IF session_state.open_file = None
       THEN Reply(Erreur("Aucun fichier ouvert a fermer"), session_state)
       ELSE Reply(Resp("CLOSE_OK", "", session_state.open_file, -1, <<>>),
                  [session_state EXCEPT !.open_file = None])

cmd_close(parts) ==
    /\ connected
    /\ NoDisk
    /\ IF session_state.open_file = None
       THEN Reply(Erreur("Aucun fichier ouvert a fermer"), session_state)
       ELSE Reply(Resp("CLOSE_OK", "", session_state.open_file, -1, <<>>),
                  [session_state EXCEPT !.open_file = None,
                                        !.phase = "ASSOCIATED"])

\* ------------------------------------------------------------- uploads
\* a file object nothing refers to any more is closed by no code: "collect"
\* says whether the runtime finalizes it at once (reference counting) or
\* leaves it open until a later collection
Drop(ref, collect) == IF ref # None /\ ~collect THEN leaked + 1 ELSE leaked

\* cmd_begin_upload answering by the file's existence instead of its size
cmd_begin_upload_by_existence(parts, collect) ==
    /\ connected
    /\ IF Len(parts) < 2
       THEN /\ NoDisk
            /\ Reply(Erreur("UPLOAD necessite un nom de fichier"), session_state)
       ELSE LET filename == parts[2]
                exists   == Exists(dir, filename)
                offset   == IF exists THEN Len(data[filename]) ELSE 0
            IN
            /\ Drop(session_state.transfer_file, collect) <= MaxLeaked
            /\ dir' = [dir EXCEPT ![filename] = TRUE]
            /\ data' = data
            /\ fobj' = FileObject(filename, exists, 0)
            /\ out' = <<Resp(IF exists THEN "UPLOAD_RESUME" ELSE "UPLOAD_READY",
                             "", filename, offset, <<>>)>>
            /\ session_state' = [session_state EXCEPT
                                    !.transfer_in_progress = TRUE,
                                    !.transfer_file = FileRef,
                                    !.transfer_offset = offset,
                                    !.phase = "TRANSFER_IN_PROGRESS"]
            /\ leaked' = Drop(session_state.transfer_file, collect)
            /\ connected' = connected

\* UPLOAD name.  The new file object is opened ('ab' at the end of an existing
\* file, 'wb' on a new one) and stored over the session's previous one.
cmd_begin_upload(parts, collect) ==
    /\ connected
    /\ IF Len(parts) < 2
       THEN /\ NoDisk
            /\ Reply(Erreur("UPLOAD necessite un nom de fichier"), session_state)
       ELSE LET filename == parts[2]
                exists   == Exists(dir, filename)
                offset   == IF exists THEN Len(data[filename]) ELSE 0
            IN
            /\ Drop(session_state.transfer_file, collect) <= MaxLeaked
            /\ dir' = [dir EXCEPT ![filename] = TRUE]
            /\ data' = data
            /\ fobj' = FileObject(filename, exists, 0)
            /\ out' = <<Resp(IF offset > 0 THEN "UPLOAD_RESUME" ELSE "UPLOAD_READY",
                             "", filename, offset, <<>>)>>
            /\ session_state' = [session_state EXCEPT
                                    !.transfer_in_progress = TRUE,
                                    !.transfer_file = FileRef,
                                    !.transfer_offset = offset,
                                    !.phase = "TRANSFER_IN_PROGRESS"]
            /\ leaked' = Drop(session_state.transfer_file, collect)
            /\ connected' = connected

\* a write that first seeks to the session's transfer_offset
FileWriteSeeked(f, dt, bytes) ==
    IF f.at \notin Names THEN [f |-> f, dt |-> dt]
    ELSE LET p == session_state.transfer_offset
         IN  [f  |-> FileObject(f.at, f.app, p + Len(bytes)),
              dt |-> [dt EXCEPT ![f.at] = WriteAt(dt[f.at], p, bytes)]]

\* f.write(bytes); f.flush() on file object f: the bytes go to the end of the
\* file ('ab') or to the object's position ('wb'); nothing of an unlinked
\* file is seen again
FileWrite(f, dt, bytes) ==
    IF f.at \notin Names THEN [f |-> f, dt |-> dt]
    ELSE LET p == IF f.app THEN Len(dt[f.at]) ELSE f.pos
         IN  [f  |-> FileObject(f.at, f.app, p + Len(bytes)),
              dt |-> [dt EXCEPT ![f.at] = WriteAt(dt[f.at], p, bytes)]]

\* an exception branch that gives the transfer up
UploadErrorGivesUp(detail) ==
    Reply(Resp("UPLOAD_ERROR", detail, None, -1, <<>>),
          [session_state EXCEPT !.error_flag = TRUE, !.error_message = detail,
                                !.transfer_in_progress = FALSE])

\* the exception branch of cmd_upload_data
UploadError(detail) ==
    Reply(Resp("UPLOAD_ERROR", detail, None, -1, <<>>),
          [session_state EXCEPT !.error_flag = TRUE, !.error_message = detail])

\* UPLOAD_DATA hex.  "persisted" is the number of bytes of the chunk that
\* reach the disk: all of them when write and flush succeed, any prefix of
\* them when one of the two raises.
cmd_upload_data(parts, persisted, raises) ==
    /\ connected
    /\ IF ~session_state.transfer_in_progress
       THEN NoDisk /\ Reply(Erreur("Aucun upload en cours"), session_state)
       ELSE IF Len(parts) < 2
       THEN NoDisk /\ Reply(Erreur("UPLOAD_DATA necessite des donnees a ecrire"),
                            session_state)
       ELSE LET data_hex == Join(Tail(parts), " ")
                decoded  == FromHex(data_hex)
            IN  IF ~decoded.ok
                THEN NoDisk /\ UploadError("non-hexadecimal number found in fromhex()")
                ELSE LET w == FileWrite(fobj, data, SubSeq(decoded.bytes, 1, persisted))
                     IN  /\ persisted <= Len(decoded.bytes)
                         /\ ~raises => persisted = Len(decoded.bytes)
                         /\ session_state.transfer_offset + persisted <= MaxOffset
                         /\ IF raises
                            THEN UploadError("I/O error")
                            ELSE Reply(Resp("UPLOAD_DATA_OK", "", None,
                                            session_state.transfer_offset + persisted,
                                            <<>>),
                                       [session_state EXCEPT !.transfer_offset =
                                            session_state.transfer_offset + persisted])
                         /\ \A n \in Names : Len(w.dt[n]) <= MaxLen
                         /\ dir' = dir
                         /\ data' = w.dt
                         /\ fobj' = w.f

\* cmd_upload_end resetting the transfer fields before it looks at them
cmd_upload_end_resets_first(parts) ==
    /\ connected
    /\ NoDisk
    /\ IF ~session_state.transfer_in_progress
       THEN Reply(Erreur("Aucun upload en cours"),
                  [session_state EXCEPT !.phase = "FILE_OPEN",
                                        !.error_flag = FALSE,
                                        !.error_message = ""])
       ELSE Reply(Resp("UPLOAD_INTERRUPTED", "", None, -1, <<>>), session_state)

\* cmd_upload_end without its test of error_flag
cmd_upload_end_ignores_error(parts) ==
    /\ connected
    /\ dir' = dir
    /\ data' = data
    /\ IF ~session_state.transfer_in_progress
       THEN fobj' = fobj /\ Reply(Erreur("Aucun upload en cours"), session_state)
       ELSE /\ fobj' = NoFile
            /\ Reply(Resp("UPLOAD_END_OK", "", None, -1, <<>>),
                     [session_state EXCEPT !.transfer_file = None,
                                           !.transfer_in_progress = FALSE,
                                           !.phase = "FILE_OPEN",
                                           !.error_flag = FALSE,
                                           !.error_message = ""])

\* cmd_upload_end closing the transfer's file also when error_flag is set
cmd_upload_end_closes_on_error(parts) ==
    /\ connected
    /\ dir' = dir
    /\ data' = data
    /\ IF ~session_state.transfer_in_progress
       THEN fobj' = fobj /\ Reply(Erreur("Aucun upload en cours"), session_state)
       ELSE IF session_state.error_flag
       THEN fobj' = NoFile
            /\ Reply(Resp("UPLOAD_INTERRUPTED", "", None, -1, <<>>),
                     [session_state EXCEPT !.transfer_file = None,
                                           !.transfer_in_progress = FALSE])
       ELSE /\ fobj' = NoFile
            /\ Reply(Resp("UPLOAD_END_OK", "", None, -1, <<>>),
                     [session_state EXCEPT !.transfer_file = None,
                                           !.transfer_in_progress = FALSE,
                                           !.phase = "FILE_OPEN",
                                           !.error_flag = FALSE,
                                           !.error_message = ""])

\* UPLOAD_END
cmd_upload_end(parts) ==
    /\ connected
    /\ dir' = dir
    /\ data' = data
    /\ IF ~session_state.transfer_in_progress
       THEN fobj' = fobj /\ Reply(Erreur("Aucun upload en cours"), session_state)
       ELSE IF session_state.error_flag
       THEN fobj' = fobj
            /\ Reply(Resp("UPLOAD_INTERRUPTED", "", None, -1, <<>>), session_state)
       ELSE /\ fobj' = NoFile
            /\ Reply(Resp("UPLOAD_END_OK", "", None, -1, <<>>),
                     [session_state EXCEPT !.transfer_file = None,
                                           !.transfer_in_progress = FALSE,
                                           !.phase = "FILE_OPEN",
                                           !.error_flag = FALSE,
                                           !.error_message = ""])

\* cmd_resume_upload without its test of error_flag
cmd_resume_upload_unasked(parts) ==
    /\ connected
    /\ NoDisk
    /\ IF session_state.transfer_file = None
       THEN Reply(Erreur("Fichier de transfert non ouvert"), session_state)
       ELSE Reply(Resp("RESUME_UPLOAD_OK", "", None, session_state.transfer_offset, <<>>),
                  [session_state EXCEPT !.transfer_in_progress = TRUE,
                                        !.phase = "TRANSFER_IN_PROGRESS",
                                        !.error_flag = FALSE,
                                        !.error_message = ""])

\* cmd_resume_upload starting the transfer over from offset 0
cmd_resume_upload_from_zero(parts) ==
    /\ connected
    /\ NoDisk
    /\ IF ~session_state.error_flag
       THEN Reply(Erreur("Aucun upload a reprendre"), session_state)
       ELSE IF session_state.transfer_file = None
       THEN Reply(Erreur("Fichier de transfert non ouvert"), session_state)
       ELSE Reply(Resp("RESUME_UPLOAD_OK", "", None, 0, <<>>),
                  [session_state EXCEPT !.transfer_in_progress = TRUE,
                                        !.transfer_offset = 0,
                                        !.phase = "TRANSFER_IN_PROGRESS",
                                        !.error_flag = FALSE,
                                        !.error_message = ""])

\* RESUME_UPLOAD
cmd_resume_upload(parts) ==
    /\ connected
    /\ NoDisk
    /\ IF ~session_state.error_flag
       THEN Reply(Erreur("Aucun upload a reprendre"), session_state)
       ELSE IF session_state.transfer_file = None
       THEN Reply(Erreur("Fichier de transfert non ouvert"), session_state)
       ELSE Reply(Resp("RESUME_UPLOAD_OK", "", None, session_state.transfer_offset, <<>>),
                  [session_state EXCEPT !.transfer_in_progress = TRUE,
                                        !.phase = "TRANSFER_IN_PROGRESS",
                                        !.error_flag = FALSE,
                                        !.error_message = ""])

\* ------------------------------------------------------------ downloads
\* bytes.hex(): two lower-case digits per byte
RECURSIVE ToHex(_)
ToHex(bytes) ==
    IF bytes = <<>> THEN <<>>
    ELSE <<HexDigits[(bytes[1] \div 16) + 1], HexDigits[(bytes[1] % 16) + 1]>>
         \o ToHex(Tail(bytes))

IsDigit(c) == c \in {"0", "1", "2", "3", "4", "5", "6", "7", "8", "9"}

RECURSIVE DigitsVal(_)
DigitsVal(s) ==
    IF s = <<>> THEN 0 ELSE 10 * DigitsVal(SubSeq(s, 1, Len(s) - 1)) + HexVal(s[Len(s)])

\* int(text): an optional sign and decimal digits, ValueError otherwise
ParseInt(s) ==
    LET signed == IF s = <<>> THEN FALSE ELSE s[1] \in {"-", "+"}
        digits == IF signed THEN Tail(s) ELSE s
    IN  IF digits # <<>> /\ \A i \in 1..Len(digits) : IsDigit(digits[i])
        THEN [ok |-> TRUE,
              val |-> IF signed /\ s[1] = "-" THEN 0 - DigitsVal(digits)
                      ELSE DigitsVal(digits)]
        ELSE [ok |-> FALSE, val |-> 0]

\* the CHUNK lines of the read loop: f.read(BLOCK_SIZE) until it returns nothing
RECURSIVE ChunkLines(_)
ChunkLines(rest) ==
    IF rest = <<>> THEN <<>>
    ELSE LET n == IF Len(rest) < BLOCK_SIZE THEN Len(rest) ELSE BLOCK_SIZE
         IN  <<Resp("CHUNK", "", None, -1, ToHex(SubSeq(rest, 1, n)))>>
             \o ChunkLines(SubSeq(rest, n + 1, Len(rest)))

\* a read loop that sends what is left of the file as one CHUNK line
RECURSIVE ReadLoopUnsplit(_, _)
ReadLoopUnsplit(rest, reads) ==
    IF reads = 0 THEN <<Erreur("Telechargement du fichier echoue")>>
    ELSE IF rest = <<>> THEN <<Resp("DOWNLOAD_END", "", None, -1, <<>>)>>
    ELSE <<Resp("CHUNK", "", None, -1, ToHex(rest))>>
         \o ReadLoopUnsplit(<<>>, reads - 1)

\* the read loop when the file object can be read "reads" times before
\* f.read raises: the except branch then sends an ERREUR line in place of the
\* rest of the stream
RECURSIVE ReadLoop(_, _)
ReadLoop(rest, reads) ==
    IF reads = 0 THEN <<Erreur("Telechargement du fichier echoue")>>
    ELSE IF rest = <<>> THEN <<Resp("DOWNLOAD_END", "", None, -1, <<>>)>>
    ELSE LET n == IF Len(rest) < BLOCK_SIZE THEN Len(rest) ELSE BLOCK_SIZE
         IN  <<Resp("CHUNK", "", None, -1, ToHex(SubSeq(rest, 1, n)))>>
             \o ReadLoop(SubSeq(rest, n + 1, Len(rest)), reads - 1)

\* cmd_download refusing to stream while an upload is in progress
cmd_download_outside_transfer(parts, reads) ==
    IF session_state.transfer_in_progress
    THEN /\ connected
         /\ NoDisk
         /\ UNCHANGED <<session_state, connected, leaked>>
         /\ out' = <<Erreur("Transfert en cours")>>
    ELSE
    /\ connected
    /\ NoDisk
    /\ UNCHANGED <<session_state, connected, leaked>>
    /\ IF Len(parts) < 2
       THEN out' = <<Erreur("DOWNLOAD necessite un nom de fichier")>>
       ELSE LET filename == parts[2]
                off == IF Len(parts) > 2 THEN ParseInt(parts[3])
                       ELSE [ok |-> TRUE, val |-> 0]
            IN  IF ~off.ok
                THEN out' = <<Erreur("Offset invalide")>>
                ELSE IF ~Exists(dir, filename)
                THEN out' = <<Erreur("Le fichier n'existe pas")>>
                ELSE IF off.val < 0
                THEN out' = <<Erreur("Telechargement du fichier echoue")>>
                ELSE LET content == data[filename]
                         rest == IF off.val >= Len(content) THEN <<>>
                                 ELSE SubSeq(content, off.val + 1, Len(content))
                     IN  out' = <<Resp("DOWNLOAD_READY", "", filename, off.val, <<>>)>>
                                \o ReadLoop(rest, reads)

\* DOWNLOAD name [offset]: the lines are sent on the socket by the handler
\* itself; the session dictionary is not touched
cmd_download(parts, reads) ==
    /\ connected
    /\ NoDisk
    /\ UNCHANGED <<session_state, connected, leaked>>
    /\ IF Len(parts) < 2
       THEN out' = <<Erreur("DOWNLOAD necessite un nom de fichier")>>
       ELSE LET filename == parts[2]
                off == IF Len(parts) > 2 THEN ParseInt(parts[3])
                       ELSE [ok |-> TRUE, val |-> 0]
            IN  IF ~off.ok
                THEN out' = <<Erreur("Offset invalide")>>
                ELSE IF ~Exists(dir, filename)
                THEN out' = <<Erreur("Le fichier n'existe pas")>>
                ELSE IF off.val < 0
                THEN out' = <<Erreur("Telechargement du fichier echoue")>>
                ELSE LET content == data[filename]
                         rest == IF off.val >= Len(content) THEN <<>>
                                 ELSE SubSeq(content, off.val + 1, Len(content))
                     IN  out' = <<Resp("DOWNLOAD_READY", "", filename, off.val, <<>>)>>
                                \o ReadLoop(rest, reads)

\* ---------------------------------------------------------- dispatching
\* the verbs gestionnaire_commandes knows
Verbs == {"LIST", "OPEN", "CREATE", "RENAME", "DELETE", "READ", "WRITE", "CLOSE",
          "UPLOAD", "UPLOAD_DATA", "UPLOAD_END", "RESUME_UPLOAD"}

\* handle_client: command.upper().startswith("DOWNLOAD")
IsDownload(parts) == IF parts = <<>> THEN FALSE ELSE parts[1] \in {"DOWNLOAD", "DOWNLOADS"}

\* gestionnaire_commandes: the branch taken for parts[0].upper()
Dispatch(verb, parts) == IF parts = <<>> THEN FALSE ELSE parts[1] = verb

\* gestionnaire_commandes: an empty line, or a verb of no branch
Unknown(parts) ==
    /\ ~IsDownload(parts)
    /\ IF parts = <<>> THEN TRUE ELSE parts[1] \notin Verbs

\* the branches of gestionnaire_commandes that call no handler
cmd_unknown(parts) ==
    /\ connected
    /\ NoDisk
    /\ IF parts = <<>>
       THEN Reply(Erreur("Commande vide"), session_state)
       ELSE Reply(Erreur("Commande non reconnue"), session_state)

\* the lines a client sends about one file name
Lines ==
    {<<>>, <<"HELLO">>, <<"LIST">>, <<"READ">>, <<"CLOSE">>, <<"UPLOAD_END">>,
     <<"RESUME_UPLOAD">>, <<"OPEN">>, <<"CREATE">>, <<"RENAME", "a">>, <<"DELETE">>,
     <<"WRITE">>, <<"UPLOAD">>, <<"UPLOAD_DATA">>, <<"DOWNLOAD">>,
     <<"RENAME", "a", "a">>, <<"DOWNLOADS", "a">>, <<"DOWNLOAD", "a", <<"1">>>>,
     <<"DOWNLOAD", "a", <<"-", "1">>>>, <<"DOWNLOAD", "a", <<"x">>>>}
    \cup {<<v, "a">> : v \in {"OPEN", "CREATE", "DELETE", "UPLOAD", "DOWNLOAD"}}
    \cup {<<"WRITE", w>> : w \in TextWords}
    \cup {<<"UPLOAD_DATA", w>> : w \in HexWords}

\* the lines of Lines that are complete: every verb with its arguments, and
\* the UPLOAD_DATA whose argument does not decode
TransferLines ==
    {<<"HELLO">>, <<"LIST">>, <<"READ">>, <<"CLOSE">>, <<"UPLOAD_END">>,
     <<"RESUME_UPLOAD">>, <<"RENAME", "a", "a">>}
    \cup {<<v, "a">> : v \in {"OPEN", "CREATE", "DELETE", "UPLOAD", "DOWNLOAD"}}
    \cup {<<"WRITE", w>> : w \in TextWords}
    \cup {<<"UPLOAD_DATA", w>> : w \in HexWords}

\* the lines a client sends about two file names, none of which puts bytes
\* into a file
NameLines ==
    {<<>>, <<"LIST">>, <<"READ">>, <<"CLOSE">>, <<"UPLOAD_END">>, <<"RESUME_UPLOAD">>,
     <<"WRITE">>, <<"UPLOAD_DATA", <<"4", "8", "z">>>>}
    \cup {<<v, n>> : v \in {"OPEN", "CREATE", "DELETE", "UPLOAD", "DOWNLOAD"},
                     n \in Names}
    \cup {<<"RENAME", n, m>> : n \in Names, m \in Names}

\* ------------------------------------------------------ connection events
\* readline() returns nothing: the client is gone, the socket is closed and
\* the session dictionary dies with handle_client, and with it everything the
\* session referred to
handle_client_eof ==
    /\ connected
    /\ connected' = FALSE
    /\ session_state' = NewSession
    /\ fobj' = NoFile
    /\ leaked' = 0
    /\ UNCHANGED <<dir, data>>
    /\ out' = <<>>

\* start(): accept() and a new handle_client with a new session dictionary
start_accept ==
    /\ ~connected
    /\ connected' = TRUE
    /\ session_state' = NewSession
    /\ NoDisk
    /\ leaked' = leaked
    /\ out' = <<Resp("FTAM_SERVER", "Association etablie", None, -1, <<>>)>>

\* the runtime finalizes a file object nothing refers to: it is closed
Finalize ==
    /\ leaked > 0
    /\ leaked' = leaked - 1
    /\ UNCHANGED <<connected, session_state, dir, data, fobj, out>>

\* handle_client's loop over the lines of L, and the connection events
NextOver(L) ==
    \/ \E parts \in L : Dispatch("LIST", parts) /\ cmd_list(parts) /\ UNCHANGED cvars
    \/ \E parts \in L : Dispatch("OPEN", parts) /\ cmd_open(parts) /\ UNCHANGED cvars
    \/ \E parts \in L : Dispatch("CREATE", parts) /\ cmd_create(parts) /\ UNCHANGED cvars
    \/ \E parts \in L : Dispatch("RENAME", parts) /\ cmd_rename(parts) /\ UNCHANGED cvars
    \/ \E parts \in L : Dispatch("DELETE", parts) /\ cmd_delete(parts) /\ UNCHANGED cvars
    \/ \E parts \in L : Dispatch("READ", parts) /\ cmd_read(parts) /\ UNCHANGED cvars
    \/ \E parts \in L : Dispatch("WRITE", parts) /\ cmd_write(parts) /\ UNCHANGED cvars
    \/ \E parts \in L : Dispatch("CLOSE", parts) /\ cmd_close(parts) /\ UNCHANGED cvars
    \/ \E parts \in L, collect \in BOOLEAN :
          Dispatch("UPLOAD", parts) /\ cmd_begin_upload(parts, collect) /\ UNCHANGED cvars
    \/ \E parts \in L, persisted \in 0..MaxLen, raises \in BOOLEAN :
          Dispatch("UPLOAD_DATA", parts) /\ cmd_upload_data(parts, persisted, raises) /\ UNCHANGED cvars
    \/ \E parts \in L : Dispatch("UPLOAD_END", parts) /\ cmd_upload_end(parts) /\ UNCHANGED cvars
    \/ \E parts \in L : Dispatch("RESUME_UPLOAD", parts) /\ cmd_resume_upload(parts) /\ UNCHANGED cvars
    \/ \E parts \in L, reads \in 0..(MaxLen + 1) :
          IsDownload(parts) /\ cmd_download(parts, reads) /\ UNCHANGED cvars
    \/ \E parts \in L : Unknown(parts) /\ cmd_unknown(parts) /\ UNCHANGED cvars
    \/ handle_client_eof /\ UNCHANGED cvars
    \/ start_accept /\ UNCHANGED cvars
    \/ Finalize /\ UNCHANGED cvars

\* one session after the other, working on one file name with data
Next == NextOver(Lines)

Spec == Init /\ [][Next]_vars

\* one session after the other, sending complete lines about one file name
NextTransfer == NextOver(TransferLines)

SpecTransfer == Init /\ [][NextTransfer]_vars

\* one session after the other, working on two file names that stay empty
NextNames == NextOver(NameLines)

SpecNames == Init /\ [][NextNames]_vars

\* ------------------------------------------------------ Client: downloads
\* the attempts of upload_file and of download_file
max_attempts == 5

\* the DOWNLOAD requests one call of download_file is followed for
MaxRequests == 6

\* the file contents of the transfers: the first n letters, "A" = 65
Letters(n) == [i \in 1..n |-> 64 + i]

\* a request that always asks for the whole file
LocalSizeIgnored(lf) == 0

\* os.path.getsize(path) if os.path.exists(path), else 0
LocalSize(lf) == IF lf.exists THEN Len(lf.bytes) ELSE 0

\* str(n) of a natural number
RECURSIVE Str(_)
Str(n) ==
    IF n < 10 THEN <<HexDigits[n + 1]>>
    ELSE Str(n \div 10) \o <<HexDigits[(n % 10) + 1]>>

\* a download_data that opens the local file before it decodes the chunk
download_data_opens_first(lf, offset, chunk_hex, persisted, raises) ==
    LET decoded == FromHex(chunk_hex)
    IN  IF ~decoded.ok \/ raises
        THEN [tok |-> "DOWNLOAD_ERROR", offset |-> offset,
              local |-> LocalFile(lf.bytes \o SubSeq(decoded.bytes, 1, persisted))]
        ELSE [tok |-> "DOWNLOAD_DATA_OK", offset |-> offset + Len(decoded.bytes),
              local |-> LocalFile(lf.bytes \o decoded.bytes)]

\* download_data(local_full_path, offset, chunk_hex): the message it returns
\* (by its first word), the offset it returns and the local file it leaves.
\* The file is opened in append mode, so the bytes go to its end wherever
\* seek(offset) points.  "persisted" is the number of bytes that reach the
\* file: all of them, or any prefix of them when the write raises.
download_data(lf, offset, chunk_hex, persisted, raises) ==
    LET decoded == FromHex(chunk_hex)
    IN  IF ~decoded.ok
        THEN [tok |-> "DOWNLOAD_ERROR", offset |-> offset, local |-> lf]
        ELSE IF raises
        THEN [tok |-> "DOWNLOAD_ERROR", offset |-> offset,
              local |-> LocalFile(lf.bytes \o SubSeq(decoded.bytes, 1, persisted))]
        ELSE [tok |-> "DOWNLOAD_DATA_OK", offset |-> offset + Len(decoded.bytes),
              local |-> LocalFile(lf.bytes \o decoded.bytes)]

\* the server's side of the state
svars == <<connected, session_state, dir, data, fobj, leaked, out>>

\* download_file(remote_filename, local_filepath) is called
download_file_call(name) ==
    /\ client.pc = "idle"
    /\ client' = [NoCall EXCEPT !.pc = "download", !.name = name]
    /\ UNCHANGED <<svars, local, wire, others>>

\* the except branch of download_file
DownloadRaise(offset) ==
    [client EXCEPT !.pc = "download", !.attempt = @ + 1, !.offset = offset]

\* one turn of the outer loop up to the test of the first line read: the
\* request carries the size of the local file, sock.makefile starts a new
\* reader ("lost" lines sent earlier went into the previous reader's buffer
\* and are gone with it), and readline returns the first line that is left.
\* Over a connection that is closed, sendall raises or the line goes nowhere
\* ("sent") and readline returns nothing.
download_file_request(reads, lost, sent) ==
    /\ client.pc = "download"
    /\ client.attempt < max_attempts
    /\ client.requests < MaxRequests
    /\ lost <= Len(wire)
    /\ UNCHANGED <<local, others>>
    /\ LET offset == LocalSize(local)
           parts  == <<"DOWNLOAD", client.name, Str(offset)>>
           left   == SubSeq(wire, lost + 1, Len(wire))
           Read(stream) ==
               /\ wire' = IF stream = <<>> THEN <<>> ELSE Tail(stream)
               /\ client' =
                    IF stream # <<>> /\ stream[1].tok = "DOWNLOAD_READY"
                    THEN [client EXCEPT !.pc = "stream", !.offset = offset,
                                        !.requests = @ + 1]
                    ELSE [client EXCEPT !.pc = "returned", !.result = "refused",
                                        !.offset = offset, !.requests = @ + 1]
       IN  IF connected
           THEN sent /\ cmd_download(parts, reads) /\ Read(left \o out')
           ELSE /\ reads = 0
                /\ UNCHANGED svars
                /\ IF sent THEN Read(left)
                   ELSE wire' = wire /\ client' = DownloadRaise(offset)

\* one turn of the inner loop: a line is read and handled
download_file_line(persisted, raises) ==
    /\ client.pc = "stream"
    /\ UNCHANGED <<svars, others>>
    /\ IF wire = <<>>
       THEN /\ ~connected
            /\ persisted = 0 /\ ~raises
            /\ wire' = wire
            /\ local' = local
            /\ client' = DownloadRaise(client.offset)
       ELSE LET line == wire[1]
            IN  /\ wire' = Tail(wire)
                /\ IF line.tok = "CHUNK" /\ line.body # <<>>
                   THEN LET r == download_data(local, client.offset, line.body,
                                               persisted, raises)
                        IN  /\ persisted <= Len(FromHex(line.body).bytes)
                            /\ ~raises => persisted = Len(FromHex(line.body).bytes)
                            /\ local' = r.local
                            /\ client' = IF r.tok = "DOWNLOAD_ERROR"
                                         THEN DownloadRaise(r.offset)
                                         ELSE [client EXCEPT !.offset = r.offset]
                   ELSE /\ persisted = 0 /\ ~raises
                        /\ local' = local
                        /\ client' =
                             IF line.tok = "CHUNK" THEN client
                             ELSE IF line.tok = "DOWNLOAD_END"
                             THEN [client EXCEPT !.pc = "returned", !.result = "done"]
                             ELSE [client EXCEPT !.pc = "download"]

\* the outer loop ends: every attempt was used
download_file_gives_up ==
    /\ client.pc = "download"
    /\ client.attempt >= max_attempts
    /\ client' = [client EXCEPT !.pc = "returned", !.result = "failed"]
    /\ UNCHANGED <<svars, local, wire, others>>

\* the connection ends while the client works: the server's handle_client
\* is over, and of the lines on their way only the first "keep" arrive
connection_lost(keep) ==
    /\ client.pc \notin {"idle", "returned"}
    /\ keep <= Len(wire)
    /\ handle_client_eof
    /\ wire' = SubSeq(wire, 1, keep)
    /\ UNCHANGED <<client, local, others>>

\* the chunk_hex arguments given to download_data alone: "Hello", "H", and
\* three texts bytes.fromhex rejects or takes for no byte
DataHex ==
    {<<"4", "8", "6", "5", "6", "c", "6", "c", "6", "f">>, <<"4", "8">>,
     <<"Z", "Z", "Z">>, <<"4">>, <<>>}

\* download_data(local_full_path, offset, chunk_hex) called on its own: the
\* chunk is the line in wire, the offset is client.offset
download_data_call ==
    /\ client.pc = "download_data"
    /\ LET r == download_data(local, client.offset, wire[1].body,
                              Len(FromHex(wire[1].body).bytes), FALSE)
       IN  /\ local' = r.local
           /\ client' = [client EXCEPT !.pc = "returned", !.result = r.tok,
                                       !.offset = r.offset]
    /\ UNCHANGED <<svars, wire, others>>

\* any local file or none, any offset, any chunk of DataHex
InitData ==
    /\ connected = FALSE
    /\ session_state = NewSession
    /\ dir = [nm \in Names |-> FALSE]
    /\ data = [nm \in Names |-> <<>>]
    /\ fobj = NoFile
    /\ leaked = 0
    /\ out = <<>>
    /\ \E o \in 0..(MaxLen + 1) :
          client = [NoCall EXCEPT !.pc = "download_data", !.offset = o]
    /\ local \in {NoLocal} \cup {LocalFile(Letters(n)) : n \in 0..(MaxLen + 1)}
    /\ \E chunk_hex \in DataHex : wire = <<Resp("CHUNK", "", None, -1, chunk_hex)>>
    /\ others = <<>>

NextData == download_data_call

\* download_data applied to every input of InitData
SpecData == InitData /\ [][NextData]_vars

\* a server that holds file "a" or not, a local file of any content or none,
\* and no call of the client yet
InitDownload ==
    /\ connected = TRUE
    /\ session_state = NewSession
    /\ \E held \in BOOLEAN, n \in 0..(MaxLen + 1) :
          /\ dir = [nm \in Names |-> held /\ nm = "a"]
          /\ data = [nm \in Names |-> IF held /\ nm = "a" THEN Letters(n) ELSE <<>>]
          /\ ~held => n = 0
    /\ fobj = NoFile
    /\ leaked = 0
    /\ out = <<Resp("FTAM_SERVER", "Association etablie", None, -1, <<>>)>>
    /\ client = NoCall
    /\ local \in {NoLocal} \cup {LocalFile(Letters(n)) : n \in 0..(MaxLen + 1)}
    /\ wire = <<>>
    /\ others = <<>>

NextDownload ==
    \/ \E name \in Names : download_file_call(name)
    \/ \E reads \in 0..(MaxLen + 2), lost \in 0..(MaxLen + 3), sent \in BOOLEAN :
          download_file_request(reads, lost, sent)
    \/ \E persisted \in 0..BLOCK_SIZE, raises \in BOOLEAN :
          download_file_line(persisted, raises)
    \/ download_file_gives_up
    \/ \E keep \in 0..(MaxLen + 3) : connection_lost(keep)

\* one call of download_file against the server
SpecDownload == InitDownload /\ [][NextDownload]_vars

\* -------------------------------------------------------- Client: uploads
\* Client.BLOCK_SIZE, the bytes of one UPLOAD_DATA
CLIENT_BLOCK_SIZE == 1

\* the calls of upload_file that are cut short before the one followed
MaxCuts == 1

\* the text of a file name, cut where it holds "offset="
NameChars(name) == IF name = "offset=1" THEN <<"offset=", "1">> ELSE <<name>>

\* the text of a response that carries an offset: the token, the name if the
\* response has one, and offset=N
ResponseText(r) ==
    <<r.tok>> \o (IF r.name = None THEN <<>> ELSE <<" ">> \o NameChars(r.name))
              \o <<" ", "offset=">> \o Str(r.off)

\* the text before the first "offset="
RECURSIVE UpToMarker(_)
UpToMarker(t) ==
    IF t = <<>> THEN <<>>
    ELSE IF t[1] = "offset=" THEN <<>>
    ELSE <<t[1]>> \o UpToMarker(Tail(t))

\* text.split("offset=")[1]: what stands between the first "offset=" and the
\* next one, if there is a first
RECURSIVE AfterMarker(_)
AfterMarker(t) ==
    IF t = <<>> THEN [found |-> FALSE, text |-> <<>>]
    ELSE IF t[1] = "offset=" THEN [found |-> TRUE, text |-> UpToMarker(Tail(t))]
    ELSE AfterMarker(Tail(t))

\* the white space int() drops around the digits
RECURSIVE TrimText(_)
TrimText(t) ==
    IF t = <<>> THEN t
    ELSE IF t[1] = " " THEN TrimText(Tail(t))
    ELSE IF t[Len(t)] = " " THEN TrimText(SubSeq(t, 1, Len(t) - 1))
    ELSE t

\* int(response.split("offset=")[1]): IndexError and ValueError are "not ok"
OffsetOf(text) ==
    LET piece == AfterMarker(text)
    IN  IF piece.found THEN ParseInt(TrimText(piece.text))
        ELSE [ok |-> FALSE, val |-> 0]

\* the words of the line "UPLOAD " + remote_filename after the verb
Words(name) == IF name = " " THEN <<>> ELSE <<name>>

\* the names upload_file is called with: the names of the server's files, and
\* a name of white space
UploadNames == Names \cup {" "}

\* upload_file(local_filepath, remote_filename) is called
upload_file_call(name) ==
    /\ client.pc = "idle"
    /\ client' = [NoCall EXCEPT !.pc = "upload", !.name = name, !.cuts = client.cuts]
    /\ UNCHANGED <<svars, local, wire, others>>

\* an except branch that counts no attempt
UploadRaiseUncounted(offset) ==
    [client EXCEPT !.pc = "upload", !.offset = offset]

\* the except branch of upload_file
UploadRaise(offset) ==
    [client EXCEPT !.pc = "upload", !.attempt = @ + 1, !.offset = offset]

\* one turn of the outer loop up to the first chunk: the local file is opened,
\* UPLOAD is sent and the offset of the response is taken over.  Over a
\* connection that is closed send_command raises, or the line goes nowhere
\* ("sent") and recv returns nothing.
upload_file_begin(collect, sent) ==
    /\ client.pc = "upload"
    /\ client.attempt < max_attempts
    /\ UNCHANGED <<local, wire, others>>
    /\ IF ~local.exists
       THEN /\ ~collect /\ sent
            /\ UNCHANGED svars
            /\ client' = UploadRaise(client.offset)
       ELSE IF ~connected
       THEN /\ ~collect
            /\ UNCHANGED svars
            /\ client' = IF sent
                         THEN [client EXCEPT !.pc = "returned", !.result = "refused",
                                             !.requests = @ + 1]
                         ELSE UploadRaise(client.offset)
       ELSE /\ sent
            /\ cmd_begin_upload(<<"UPLOAD">> \o Words(client.name), collect)
            /\ LET r == out'[1]
                   n == OffsetOf(ResponseText(r))
               IN  client' =
                     IF r.tok \notin {"UPLOAD_READY", "UPLOAD_RESUME"}
                     THEN [client EXCEPT !.pc = "returned", !.result = "refused",
                                         !.requests = @ + 1]
                     ELSE IF ~n.ok
                     THEN [UploadRaise(client.offset) EXCEPT !.requests = @ + 1]
                     ELSE [client EXCEPT !.pc = "data", !.offset = n.val,
                                         !.start = n.val, !.pos = n.val,
                                         !.requests = @ + 1]

\* a read loop that starts at the first byte of the local file in every
\* attempt, whatever offset the server reported
NextChunkUnseeked ==
    LET p == client.pos - client.start
    IN  IF p >= Len(local.bytes) THEN <<>>
        ELSE SubSeq(local.bytes, p + 1,
                    IF p + CLIENT_BLOCK_SIZE < Len(local.bytes)
                    THEN p + CLIENT_BLOCK_SIZE ELSE Len(local.bytes))

\* f.read(BLOCK_SIZE) at the position of the local file object
NextChunk ==
    IF client.pos >= Len(local.bytes) THEN <<>>
    ELSE SubSeq(local.bytes, client.pos + 1,
                IF client.pos + CLIENT_BLOCK_SIZE < Len(local.bytes)
                THEN client.pos + CLIENT_BLOCK_SIZE ELSE Len(local.bytes))

\* one turn of the inner loop with a chunk to send
upload_file_chunk(persisted, raises, sent) ==
    /\ client.pc = "data"
    /\ NextChunk # <<>>
    /\ UNCHANGED <<local, wire, others>>
    /\ LET read == [client EXCEPT !.pos = @ + Len(NextChunk)]
       IN  IF ~connected
           THEN /\ persisted = 0 /\ ~raises
                /\ UNCHANGED svars
                /\ client' = IF sent THEN read ELSE UploadRaise(client.offset)
           ELSE /\ sent
                /\ cmd_upload_data(<<"UPLOAD_DATA", ToHex(NextChunk)>>, persisted, raises)
                /\ LET r == out'[1]
                       n == OffsetOf(ResponseText(r))
                   IN  client' =
                         IF r.tok = "UPLOAD_ERROR" THEN UploadRaise(client.offset)
                         ELSE IF r.tok # "UPLOAD_DATA_OK" THEN read
                         ELSE IF ~n.ok THEN UploadRaise(client.offset)
                         ELSE [read EXCEPT !.offset = n.val]

\* the inner loop ends on an empty read: UPLOAD_END is sent, and the call
\* returns whatever the answer
upload_file_end(sent) ==
    /\ client.pc = "data"
    /\ NextChunk = <<>>
    /\ UNCHANGED <<local, wire, others>>
    /\ IF ~connected
       THEN /\ UNCHANGED svars
            /\ client' = IF sent
                         THEN [client EXCEPT !.pc = "returned", !.result = "ended"]
                         ELSE UploadRaise(client.offset)
       ELSE /\ sent
            /\ cmd_upload_end(<<"UPLOAD_END">>)
            /\ client' = [client EXCEPT !.pc = "returned", !.result = "ended"]

\* the outer loop ends: every attempt was used
upload_file_gives_up ==
    /\ client.pc = "upload"
    /\ client.attempt >= max_attempts
    /\ client' = [client EXCEPT !.pc = "returned", !.result = "failed"]
    /\ UNCHANGED <<svars, local, wire, others>>

\* the client's process ends in the middle of upload_file, and its
\* connection with it
upload_file_cut ==
    /\ client.pc \in {"upload", "data"}
    /\ client.cuts < MaxCuts
    /\ client' = [NoCall EXCEPT !.cuts = client.cuts + 1]
    /\ UNCHANGED <<local, wire, others>>
    /\ IF connected THEN handle_client_eof ELSE UNCHANGED svars

\* Client.connect() of a new client
connect ==
    /\ client.pc = "idle"
    /\ start_accept
    /\ UNCHANGED cvars

\* a local file of up to MaxLen bytes or none; a server that holds nothing,
\* or file "a" with the first bytes of the local files or with another byte
InitUpload ==
    /\ connected = TRUE
    /\ session_state = NewSession
    /\ \E held \in BOOLEAN, content \in {Letters(n) : n \in 0..MaxLen} \cup {<<72>>} :
          /\ dir = [nm \in Names |-> held /\ nm = "a"]
          /\ data = [nm \in Names |-> IF held /\ nm = "a" THEN content ELSE <<>>]
          /\ ~held => content = <<>>
    /\ fobj = NoFile
    /\ leaked = 0
    /\ out = <<Resp("FTAM_SERVER", "Association etablie", None, -1, <<>>)>>
    /\ client = NoCall
    /\ local \in {NoLocal} \cup {LocalFile(Letters(n)) : n \in 0..MaxLen}
    /\ wire = <<>>
    /\ others = <<>>

\* the steps of upload_file and of its connection, the server's writes
\* failing as "faults" says
NextUploadOver(faults) ==
    \/ \E name \in UploadNames : upload_file_call(name)
    \/ \E collect \in BOOLEAN, sent \in BOOLEAN : upload_file_begin(collect, sent)
    \/ \E persisted \in 0..CLIENT_BLOCK_SIZE, raises \in faults, sent \in BOOLEAN :
          upload_file_chunk(persisted, raises, sent)
    \/ \E sent \in BOOLEAN : upload_file_end(sent)
    \/ upload_file_gives_up
    \/ upload_file_cut
    \/ connect
    \/ connection_lost(0)

\* every step, and the runtime finalizing the file objects that the repeated
\* UPLOADs of one session leave behind
NextUpload ==
    \/ NextUploadOver(BOOLEAN)
    \/ Finalize /\ UNCHANGED cvars

\* calls of upload_file against the server, the last one followed to its end
SpecUpload == InitUpload /\ [][NextUpload]_vars

\* the same calls against a server that holds no file at first
InitFresh ==
    /\ InitUpload
    /\ \A nm \in Names : ~dir[nm]

\* the passes are cut by the end of the client's process, no write fails
NextTwoPass == NextUploadOver({FALSE})

SpecTwoPass == InitFresh /\ [][NextTwoPass]_vars

\* ------------------------------------------- an upload that is resumed
\* the failed UPLOAD_DATA commands of one transfer
MaxFailures == 1

\* UPLOAD name, the first command of the transfer of the local file
send_UPLOAD(name, collect) ==
    /\ client.pc = "idle"
    /\ cmd_begin_upload(<<"UPLOAD", name>>, collect)
    /\ client' = [client EXCEPT !.pc = "sending", !.name = name, !.pos = 0]
    /\ UNCHANGED <<local, wire, others>>

\* UPLOAD_DATA with the next n bytes of the local file as one chunk: accepted,
\* or failed, and then the chunk is still to be sent
send_UPLOAD_DATA(n, persisted, raises) ==
    /\ client.pc = "sending"
    /\ n <= Len(local.bytes) - client.pos
    /\ raises => client.attempt < MaxFailures
    /\ cmd_upload_data(<<"UPLOAD_DATA",
                         ToHex(SubSeq(local.bytes, client.pos + 1, client.pos + n))>>,
                       persisted, raises)
    /\ client' = IF out'[1].tok = "UPLOAD_DATA_OK"
                 THEN [client EXCEPT !.pos = @ + n]
                 ELSE [client EXCEPT !.pc = "interrupted", !.attempt = @ + 1,
                                     !.start = client.pos]
    /\ UNCHANGED <<local, wire, others>>

\* RESUME_UPLOAD after the failed chunk
send_RESUME_UPLOAD ==
    /\ client.pc = "interrupted"
    /\ cmd_resume_upload(<<"RESUME_UPLOAD">>)
    /\ client' = [client EXCEPT !.pc = IF out'[1].tok = "RESUME_UPLOAD_OK"
                                       THEN "sending" ELSE "returned",
                                !.offset = out'[1].off]
    /\ UNCHANGED <<local, wire, others>>

\* UPLOAD_END once every chunk was accepted
send_UPLOAD_END ==
    /\ client.pc = "sending"
    /\ client.pos = Len(local.bytes)
    /\ cmd_upload_end(<<"UPLOAD_END">>)
    /\ client' = [client EXCEPT !.pc = "returned", !.result = "ended"]
    /\ UNCHANGED <<local, wire, others>>

\* a server that holds no file, and the bytes to transfer: up to MaxLen
\* bytes, each of them 'A' or 'B'
InitResume ==
    /\ connected = TRUE
    /\ session_state = NewSession
    /\ dir = [nm \in Names |-> FALSE]
    /\ data = [nm \in Names |-> <<>>]
    /\ fobj = NoFile
    /\ leaked = 0
    /\ out = <<Resp("FTAM_SERVER", "Association etablie", None, -1, <<>>)>>
    /\ client = NoCall
    /\ \E n \in 0..MaxLen : local \in {LocalFile(b) : b \in [1..n -> {65, 66}]}
    /\ wire = <<>>
    /\ others = <<>>

NextResume ==
    \/ \E name \in Names, collect \in BOOLEAN : send_UPLOAD(name, collect)
    \/ \E n \in 1..MaxLen, persisted \in 0..MaxLen, raises \in BOOLEAN :
          send_UPLOAD_DATA(n, persisted, raises)
    \/ send_RESUME_UPLOAD
    \/ send_UPLOAD_END

\* UPLOAD, the chunks in order, RESUME_UPLOAD after a chunk that failed, and
\* UPLOAD_END
SpecResume == InitResume /\ [][NextResume]_vars

\* --------------------------------- CREATE, WRITE, READ and CLOSE in a row
\* CREATE name, answered CREATE_OK
script_create(name) ==
    /\ client.pc = "idle"
    /\ cmd_create(<<"CREATE", name>>)
    /\ out'[1].tok = "CREATE_OK"
    /\ client' = [client EXCEPT !.pc = "created", !.name = name]
    /\ UNCHANGED <<local, wire, others>>

\* WRITE word as the next command; "local" keeps the data that was sent
script_write(word) ==
    /\ client.pc = "created"
    /\ cmd_write(<<"WRITE", word>>)
    /\ client' = [client EXCEPT !.pc = "written"]
    /\ local' = LocalFile(word)
    /\ UNCHANGED <<wire, others>>

\* READ as the next command
script_read ==
    /\ client.pc = "written"
    /\ cmd_read(<<"READ">>)
    /\ client' = [client EXCEPT !.pc = "read"]
    /\ UNCHANGED <<local, wire, others>>

\* CLOSE as the next command
script_close ==
    /\ client.pc = "read"
    /\ cmd_close(<<"CLOSE">>)
    /\ client' = [client EXCEPT !.pc = "closed"]
    /\ UNCHANGED <<local, wire, others>>

\* any commands of the session, and then the four in a row
NextReadWriteClose ==
    \/ client.pc = "idle" /\ NextTransfer
    \/ \E name \in Names : script_create(name)
    \/ \E word \in TextWords : script_write(word)
    \/ script_read
    \/ script_close

SpecReadWriteClose == Init /\ [][NextReadWriteClose]_vars

\* ------------------------------------- a DOWNLOAD line within a session
\* the lines handle_client hands to cmd_download
DownloadLines == {parts \in Lines : IsDownload(parts)}

\* a DOWNLOAD line as the next line of the session; "wire" keeps the line
send_DOWNLOAD(parts, reads) ==
    /\ client.pc = "idle"
    /\ cmd_download(parts, reads)
    /\ client' = [client EXCEPT !.pc = "downloaded"]
    /\ wire' = <<parts>>
    /\ UNCHANGED <<local, others>>

\* any complete lines of the session, and then a DOWNLOAD line
NextDownloadInSession ==
    \/ client.pc = "idle" /\ NextTransfer
    \/ \E parts \in DownloadLines, reads \in 0..(MaxLen + 1) : send_DOWNLOAD(parts, reads)

SpecDownloadInSession == Init /\ [][NextDownloadInSession]_vars

\* ---------------------------------------------------------- two sessions
\* start() gives every connection a thread of its own that runs handle_client
\* with a session dictionary of its own; the threads share DEFAULT_DIR.  Two
\* sessions are followed, each working on a file of its own.  The variables
\* of the state are those of the thread that runs; "others" keeps the thread
\* that waits and, for the comparison, what each session leaves when it runs
\* with no other session: every line is handled a second time there.

\* the file session i works on
FileOf(i) == IF i = 1 THEN "a" ELSE "offset=1"

\* what a session may send, line after line
Scripts(i) ==
    << << <<"CREATE", FileOf(i)>>, <<"WRITE", <<72>>>>, <<"READ">>, <<"CLOSE">>,
          <<"OPEN", FileOf(i)>>, <<"DELETE", FileOf(i)>>, <<"LIST">> >>,
       << <<"UPLOAD", FileOf(i)>>, <<"UPLOAD_DATA", <<"4", "8">>>>,
          <<"UPLOAD_DATA", <<"4", "8">>>>, <<"RESUME_UPLOAD">>, <<"UPLOAD_END">>,
          <<"DOWNLOAD", FileOf(i)>>, <<"LIST">> >>,
       << <<"CREATE", FileOf(i)>>, <<"UPLOAD", FileOf(i)>>,
          <<"UPLOAD_DATA", <<"4", "8">>>>, <<"DELETE", FileOf(i)>>, <<"UPLOAD_END">>,
          <<"READ">>, <<"CLOSE">> >> >>

\* handle_client's turn for one line: a DOWNLOAD line goes to cmd_download,
\* any other to its branch of gestionnaire_commandes
HandleLine(parts, collect, persisted, raises, reads) ==
    IF IsDownload(parts) THEN cmd_download(parts, reads)
    ELSE IF Unknown(parts) THEN cmd_unknown(parts)
    ELSE IF parts[1] = "LIST" THEN cmd_list(parts)
    ELSE IF parts[1] = "OPEN" THEN cmd_open(parts)
    ELSE IF parts[1] = "CREATE" THEN cmd_create(parts)
    ELSE IF parts[1] = "RENAME" THEN cmd_rename(parts)
    ELSE IF parts[1] = "DELETE" THEN cmd_delete(parts)
    ELSE IF parts[1] = "READ" THEN cmd_read(parts)
    ELSE IF parts[1] = "WRITE" THEN cmd_write(parts)
    ELSE IF parts[1] = "CLOSE" THEN cmd_close(parts)
    ELSE IF parts[1] = "UPLOAD" THEN cmd_begin_upload(parts, collect)
    ELSE IF parts[1] = "UPLOAD_DATA" THEN cmd_upload_data(parts, persisted, raises)
    ELSE IF parts[1] = "UPLOAD_END" THEN cmd_upload_end(parts)
    ELSE cmd_resume_upload(parts)

\* what belongs to one thread of handle_client, and a directory with it
ThisSession ==
    [connected |-> connected, session_state |-> session_state, fobj |-> fobj,
     leaked |-> leaked, out |-> out]

ThisWorld == [session |-> ThisSession, dir |-> dir, data |-> data]

NewWorld ==
    [session |-> [connected |-> TRUE, session_state |-> NewSession, fobj |-> NoFile,
                  leaked |-> 0,
                  out |-> <<Resp("FTAM_SERVER", "Association etablie", None, -1, <<>>)>>],
     dir |-> [n \in Names |-> FALSE],
     data |-> [n \in Names |-> <<>>]]

\* session s once its answer has gone to its client
Sent(s) == [s EXCEPT !.out = <<>>]

\* the thread of session s runs
Runs(s) ==
    /\ connected' = s.connected
    /\ session_state' = s.session_state
    /\ fobj' = s.fobj
    /\ leaked' = s.leaked
    /\ out' = s.out

\* the environment's part in the handling of a line, when there is none
NoFault == [collect |-> TRUE, persisted |-> 0, raises |-> FALSE]

InitTwoSessions ==
    /\ connected = TRUE
    /\ session_state = NewSession
    /\ fobj = NoFile
    /\ leaked = 0
    /\ out = <<Resp("FTAM_SERVER", "Association etablie", None, -1, <<>>)>>
    /\ dir = NewWorld.dir
    /\ data = NewWorld.data
    /\ client = NoCall
    /\ local = NoLocal
    /\ wire = <<>>
    /\ \E s1 \in 1..Len(Scripts(1)), s2 \in 1..Len(Scripts(2)) :
          others = [turn |-> 1, pc |-> "run", script |-> <<s1, s2>>, sent |-> <<0, 0>>,
                    fault |-> NoFault, peer |-> NewWorld.session,
                    alone |-> <<NewWorld, NewWorld>>, held |-> NewWorld]

\* the script of the running thread, and the line it handles
Script == Scripts(others.turn)[others.script[others.turn]]

Line == Script[others.sent[others.turn]]

\* the running thread handles the next line of its session
session_line(collect, persisted, raises) ==
    /\ others.pc = "run"
    /\ others.sent[others.turn] < Len(Script)
    /\ LET parts == Script[others.sent[others.turn] + 1]
       IN  /\ parts[1] # "UPLOAD" => collect
           /\ parts[1] # "UPLOAD_DATA" => persisted = 0 /\ ~raises
           /\ HandleLine(parts, collect, persisted, raises, MaxLen + 1)
    /\ others' = [others EXCEPT !.pc = "ran", !.sent[others.turn] = @ + 1,
                                !.fault = [collect |-> collect, persisted |-> persisted,
                                           raises |-> raises]]
    /\ UNCHANGED <<client, local, wire>>

\* the same line is handled where the session is alone
alone_enter ==
    /\ others.pc = "ran"
    /\ Runs(others.alone[others.turn].session)
    /\ dir' = others.alone[others.turn].dir
    /\ data' = others.alone[others.turn].data
    /\ others' = [others EXCEPT !.pc = "alone", !.held = ThisWorld]
    /\ UNCHANGED <<client, local, wire>>

alone_line ==
    /\ others.pc = "alone"
    /\ HandleLine(Line, others.fault.collect, others.fault.persisted,
                  others.fault.raises, MaxLen + 1)
    /\ others' = [others EXCEPT !.pc = "replayed"]
    /\ UNCHANGED <<client, local, wire>>

alone_leave ==
    /\ others.pc = "replayed"
    /\ Runs(Sent(others.held.session))
    /\ dir' = others.held.dir
    /\ data' = others.held.data
    /\ others' = [others EXCEPT !.pc = "run", !.fault = NoFault,
                                !.alone[others.turn] =
                                    [ThisWorld EXCEPT !.session = Sent(ThisSession)],
                                !.held = NewWorld]
    /\ UNCHANGED <<client, local, wire>>

\* the other thread is scheduled
thread_switch ==
    /\ others.pc = "run"
    /\ Runs(others.peer)
    /\ UNCHANGED <<dir, data>>
    /\ others' = [others EXCEPT !.turn = 3 - others.turn, !.peer = ThisSession]
    /\ UNCHANGED <<client, local, wire>>

NextTwoSessions ==
    \/ \E collect \in BOOLEAN, persisted \in 0..MaxLen, raises \in BOOLEAN :
          session_line(collect, persisted, raises)
    \/ alone_enter
    \/ alone_line
    \/ alone_leave
    \/ thread_switch

SpecTwoSessions == InitTwoSessions /\ [][NextTwoSessions]_vars

\* ---------------------------------------------------------- send_command
\* Client.send_command sends one line and returns what one recv(BLOCK_SIZE)
\* gives.  "wire" holds the bytes the server has sent and the client has not
\* received.  Sizes are on the scale of the files: a response is as long as
\* the content it carries (the bytes of a file for READ, the names for LIST),
\* its token and the fixed text around the content counting for nothing
\* against the block.

\* most items left on the wire
MaxPending == 2

\* the content a response carries, unit by unit
Units(r) ==
    IF r.tok = "LIST_OK" THEN [j \in DOMAIN r.body |-> <<r.body[j]>>]
    ELSE [j \in DOMAIN r.body |-> Str(r.body[j])]

\* (response + "\n").encode(): the head of the response, then its content
Encoded(r) ==
    [j \in 1..(Len(r.body) + 1) |->
        [tok |-> r.tok, detail |-> r.detail, name |-> r.name, off |-> r.off,
         at |-> j - 1, unit |-> IF j = 1 THEN <<>> ELSE Units(r)[j - 1]]]

\* sock.recv(bufsize): the bytes at hand, up to bufsize of them
RECURSIVE Recv(_, _)
Recv(stream, bufsize) ==
    IF stream = <<>> THEN <<>>
    ELSE LET size == IF stream[1].at = 0 THEN 0 ELSE 1
         IN  IF size > bufsize THEN <<>>
             ELSE <<stream[1]>> \o Recv(Tail(stream), bufsize - size)

\* the lines the menu of the client sends through send_command
MenuLines ==
    {<<"LIST">>, <<"READ">>, <<"CLOSE">>, <<"RENAME", "a", "a">>}
    \cup {<<v, n>> : v \in {"OPEN", "CREATE", "DELETE"}, n \in Names}
    \cup {<<"WRITE", w>> : w \in TextWords}

\* send_command(command): the line goes out, handle_client answers it, and
\* recv returns.  With bytes of an earlier response at hand recv may return
\* before the answer has arrived ("arrived" false).
send_command(parts, arrived) ==
    /\ client.pc \in {"idle", "answered"}
    /\ connected
    /\ HandleLine(parts, TRUE, 0, FALSE, MaxLen + 1)
    /\ LET stream == wire \o Encoded(out'[1])
           athand == IF arrived THEN stream ELSE wire
           response == Recv(athand, CLIENT_BLOCK_SIZE)
       IN  /\ wire # <<>> \/ arrived
           /\ Len(stream) - Len(response) <= MaxPending
           /\ client' = [client EXCEPT !.pc = "answered", !.result = response]
           /\ wire' = SubSeq(stream, Len(response) + 1, Len(stream))
    /\ UNCHANGED <<local, others>>

\* a connected client and a server whose directory holds file "a" or nothing
InitSendCommand ==
    /\ connected = TRUE
    /\ session_state = NewSession
    /\ \E held \in BOOLEAN, n \in 0..MaxLen :
          /\ dir = [nm \in Names |-> held /\ nm = "a"]
          /\ data = [nm \in Names |-> IF held /\ nm = "a" THEN Letters(n) ELSE <<>>]
          /\ ~held => n = 0
    /\ fobj = NoFile
    /\ leaked = 0
    /\ out = <<Resp("FTAM_SERVER", "Association etablie", None, -1, <<>>)>>
    /\ client = NoCall
    /\ local = NoLocal
    /\ wire = <<>>
    /\ others = <<>>

NextSendCommand ==
    \E parts \in MenuLines, arrived \in BOOLEAN : send_command(parts, arrived)

SpecSendCommand == InitSendCommand /\ [][NextSendCommand]_vars

\* ------------------------------------------------------------ properties
\* the first response line of the state and of the next state
Tok == IF out = <<>> THEN "" ELSE out[1].tok

TokNext == IF out' = <<>> THEN "" ELSE out'[1].tok

\* the lines of Lines that reach one handler
LinesOf(verb) == {parts \in Lines : Dispatch(verb, parts)}

UploadLines == LinesOf("UPLOAD")

UploadDataLines == LinesOf("UPLOAD_DATA")

UploadEndLines == LinesOf("UPLOAD_END")

ResumeUploadLines == LinesOf("RESUME_UPLOAD")

\* the UPLOAD_DATA lines whose argument bytes.fromhex accepts, and rejects
GoodHexLines ==
    {parts \in UploadDataLines :
        Len(parts) >= 2 /\ FromHex(Join(Tail(parts), " ")).ok}

BadHexLines ==
    {parts \in UploadDataLines :
        Len(parts) >= 2 /\ ~FromHex(Join(Tail(parts), " ")).ok}

\* C1: whenever the response to a line begins with ERREUR, every field of the
\* session dictionary is what it was before the line, and the connection
\* stays open.
C1_ErreurChangesNothing ==
    [][(connected /\ TokNext = "ERREUR")
          => (session_state' = session_state /\ connected')]_vars

\* an ERREUR answered to a session that has a file open and a transfer in error
C1_Witness ==
    /\ Tok = "ERREUR"
    /\ session_state.open_file # None
    /\ session_state.transfer_in_progress
    /\ session_state.error_flag
    /\ session_state.transfer_offset > 0

\* C2, as stated: the phase changes only along ASSOCIATED -> FILE_OPEN (OPEN,
\* CREATE) -> TRANSFER_IN_PROGRESS (UPLOAD) -> FILE_OPEN (UPLOAD_END, no
\* error) -> ASSOCIATED (CLOSE).
C2_PhaseFollowsDiagram ==
    [][(connected /\ connected' /\ session_state'.phase # session_state.phase)
          => LET p == session_state.phase
                 q == session_state'.phase
             IN  \/ p = "ASSOCIATED" /\ q = "FILE_OPEN"
                    /\ TokNext \in {"OPEN_OK", "CREATE_OK"}
                 \/ p = "FILE_OPEN" /\ q = "TRANSFER_IN_PROGRESS"
                    /\ TokNext \in {"UPLOAD_READY", "UPLOAD_RESUME"}
                 \/ p = "TRANSFER_IN_PROGRESS" /\ q = "FILE_OPEN"
                    /\ TokNext = "UPLOAD_END_OK"
                 \/ p = "FILE_OPEN" /\ q = "ASSOCIATED"
                    /\ TokNext = "CLOSE_OK"]_vars

\* C2, amended: the phase a command leaves depends on its success response
\* alone, not on the phase before it.  OPEN_OK, CREATE_OK and UPLOAD_END_OK
\* leave FILE_OPEN; UPLOAD_READY, UPLOAD_RESUME and RESUME_UPLOAD_OK leave
\* TRANSFER_IN_PROGRESS; CLOSE_OK leaves ASSOCIATED; and the phase changes on
\* no other response.
C2_PhaseFollowsResponse ==
    [][(connected /\ connected')
          => LET q == session_state'.phase
             IN  /\ TokNext \in {"OPEN_OK", "CREATE_OK", "UPLOAD_END_OK"}
                       => q = "FILE_OPEN"
                 /\ TokNext \in {"UPLOAD_READY", "UPLOAD_RESUME", "RESUME_UPLOAD_OK"}
                       => q = "TRANSFER_IN_PROGRESS"
                 /\ TokNext = "CLOSE_OK" => q = "ASSOCIATED"
                 /\ q # session_state.phase
                       => TokNext \in {"OPEN_OK", "CREATE_OK", "UPLOAD_END_OK",
                                       "UPLOAD_READY", "UPLOAD_RESUME",
                                       "RESUME_UPLOAD_OK", "CLOSE_OK"}]_vars

\* a clean UPLOAD_END has left FILE_OPEN in a session that has no file open
C2_Witness ==
    /\ Tok = "UPLOAD_END_OK"
    /\ session_state.phase = "FILE_OPEN"
    /\ session_state.open_file = None

\* C3, as stated: while a transfer is active, transfer_offset is the number
\* of bytes of the destination file on disk.
C3_OffsetIsFileSize ==
    (session_state.transfer_in_progress /\ fobj.at \in Names)
        => session_state.transfer_offset = Len(data[fobj.at])

C5_OneTransferFileOpen ==
    (IF session_state.transfer_file # None THEN 1 ELSE 0) + leaked <= 1

\* C6: OPEN or CREATE while a file is open is answered ERREUR and leaves
\* open_file and phase as they are; open_file is set only from None (by
\* OPEN_OK or CREATE_OK) and reset only to None (by CLOSE_OK), so it never
\* goes from one name to another in one step.
C6_OneOpenFile ==
    [][(connected /\ connected')
          => /\ \A parts \in NameLines :
                  (/\ session_state.open_file # None
                   /\ \/ Dispatch("OPEN", parts) /\ cmd_open(parts)
                      \/ Dispatch("CREATE", parts) /\ cmd_create(parts))
                     => /\ TokNext = "ERREUR"
                        /\ session_state'.open_file = session_state.open_file
                        /\ session_state'.phase = session_state.phase
             /\ session_state'.open_file # session_state.open_file
                   => \/ /\ session_state.open_file = None
                         /\ TokNext \in {"OPEN_OK", "CREATE_OK"}
                         /\ session_state'.open_file = out'[1].name
                      \/ /\ session_state'.open_file = None
                         /\ TokNext = "CLOSE_OK"]_vars

\* an OPEN or CREATE refused while "a" is open and "offset=1" exists too
C6_Witness ==
    /\ Tok = "ERREUR"
    /\ out[1].detail = "Un fichier est deja ouvert"
    /\ session_state.open_file = "a"
    /\ dir["offset=1"]

\* C7, as stated, for what the client is told and the session holds: UPLOAD
\* name creates the file if absent, sets transfer_offset to the file's size
\* and the phase to TRANSFER_IN_PROGRESS, and answers UPLOAD_READY offset=0
\* if the file is new and UPLOAD_RESUME offset=size otherwise.
C7_ResumeUnlessNew ==
    [][\A parts \in UploadLines, collect \in BOOLEAN :
          (/\ Len(parts) >= 2
           /\ cmd_begin_upload(parts, collect))
             => LET name == parts[2]
                    size == IF dir[name] THEN Len(data[name]) ELSE 0
                IN  /\ dir'[name]
                    /\ fobj'.at = name
                    /\ session_state'.transfer_offset = size
                    /\ session_state'.phase = "TRANSFER_IN_PROGRESS"
                    /\ out' = <<Resp(IF dir[name] THEN "UPLOAD_RESUME"
                                                  ELSE "UPLOAD_READY",
                                     "", name, size, <<>>)>>]_vars

\* C7, amended: the answer goes by the size, not by the file being new:
\* UPLOAD_READY offset=0 for a new file and for an existing empty one,
\* UPLOAD_RESUME offset=size for a file of size > 0.  An existing file is
\* opened in append mode, a new one in write mode at position 0.  The
\* transfer becomes active on the new file object; open_file, error_flag and
\* error_message stay as they were.
C7_ResumeByTheSize ==
    [][\A parts \in UploadLines, collect \in BOOLEAN :
          (/\ Len(parts) >= 2
           /\ cmd_begin_upload(parts, collect))
             => LET name == parts[2]
                    size == IF dir[name] THEN Len(data[name]) ELSE 0
                IN  /\ dir'[name]
                    /\ data' = data
                    /\ fobj' = FileObject(name, dir[name], 0)
                    /\ session_state' =
                          [session_state EXCEPT !.transfer_in_progress = TRUE,
                                                !.transfer_file = FileRef,
                                                !.transfer_offset = size,
                                                !.phase = "TRANSFER_IN_PROGRESS"]
                    /\ out' = <<Resp(IF size > 0 THEN "UPLOAD_RESUME"
                                                 ELSE "UPLOAD_READY",
                                     "", name, size, <<>>)>>]_vars

\* UPLOAD_READY offset=0 answered for a file that was there, and empty
C7_Witness ==
    /\ Tok = "UPLOAD_READY"
    /\ fobj = FileObject("a", TRUE, 0)
    /\ session_state.transfer_offset = 0
    /\ session_state.phase = "TRANSFER_IN_PROGRESS"

\* C8: an UPLOAD_DATA of an active transfer whose hex does not decode, or
\* whose write or flush raises, is answered UPLOAD_ERROR; error_flag is then
\* set and error_message is the detail sent, the transfer stays active on the
\* same open file object, and every other field, transfer_offset included,
\* is what it was.
C8_UploadErrorKeepsTheTransfer ==
    [][/\ (session_state.transfer_in_progress /\ TokNext # "UPLOAD_ERROR")
            => \A persisted \in 0..MaxLen :
                  /\ \A parts \in GoodHexLines :
                        ~cmd_upload_data(parts, persisted, TRUE)
                  /\ \A parts \in BadHexLines, raises \in BOOLEAN :
                        ~cmd_upload_data(parts, persisted, raises)
       /\ TokNext = "UPLOAD_ERROR"
            => /\ session_state.transfer_in_progress
               /\ session_state' = [session_state EXCEPT
                                       !.error_flag = TRUE,
                                       !.error_message = out'[1].detail]
               /\ session_state'.transfer_file = FileRef
               /\ fobj'.at = fobj.at
               /\ fobj'.app = fobj.app
               /\ connected']_vars

\* a write that failed after a chunk had been accepted
C8_Witness ==
    /\ Tok = "UPLOAD_ERROR"
    /\ out[1].detail = "I/O error"
    /\ session_state.error_flag
    /\ session_state.transfer_in_progress
    /\ session_state.transfer_offset = 1

\* C9: UPLOAD_END of an active transfer.  With error_flag set it answers
\* UPLOAD_INTERRUPTED and changes nothing; with error_flag clear it closes
\* the file object, clears the transfer, sets the phase to FILE_OPEN and
\* answers UPLOAD_END_OK.  Within a connection transfer_in_progress goes
\* from true to false on UPLOAD_END_OK only.
C9_UploadEnd ==
    [][/\ \A parts \in UploadEndLines :
            (/\ session_state.transfer_in_progress
             /\ cmd_upload_end(parts))
               => IF session_state.error_flag
                  THEN /\ TokNext = "UPLOAD_INTERRUPTED"
                       /\ session_state' = session_state
                       /\ fobj' = fobj
                       /\ leaked' = leaked
                  ELSE /\ TokNext = "UPLOAD_END_OK"
                       /\ fobj' = NoFile
                       /\ leaked' = leaked
                       /\ session_state' = [session_state EXCEPT
                                               !.transfer_file = None,
                                               !.transfer_in_progress = FALSE,
                                               !.phase = "FILE_OPEN"]
       /\ (/\ connected'
           /\ session_state.transfer_in_progress
           /\ ~session_state'.transfer_in_progress)
             => TokNext = "UPLOAD_END_OK" /\ ~session_state.error_flag]_vars

\* UPLOAD_INTERRUPTED answered to a transfer in error that had taken a chunk
C9_Witness ==
    /\ Tok = "UPLOAD_INTERRUPTED"
    /\ session_state.error_flag
    /\ session_state.transfer_in_progress
    /\ session_state.transfer_file = FileRef
    /\ session_state.transfer_offset = 1

\* C10: RESUME_UPLOAD with error_flag set and a transfer file object still
\* held answers RESUME_UPLOAD_OK offset=transfer_offset, clears error_flag
\* and error_message, makes the transfer active in phase
\* TRANSFER_IN_PROGRESS and leaves transfer_offset and the file object as
\* they are; in every other state it answers ERREUR and changes nothing.
C10_ResumeUpload ==
    [][\A parts \in ResumeUploadLines : cmd_resume_upload(parts)
             => /\ fobj' = fobj
                /\ leaked' = leaked
                /\ IF session_state.error_flag /\ session_state.transfer_file # None
                   THEN /\ out' = <<Resp("RESUME_UPLOAD_OK", "", None,
                                         session_state.transfer_offset, <<>>)>>
                        /\ fobj.at # None
                        /\ session_state' = [session_state EXCEPT
                                                !.transfer_in_progress = TRUE,
                                                !.phase = "TRANSFER_IN_PROGRESS",
                                                !.error_flag = FALSE,
                                                !.error_message = ""]
                   ELSE /\ TokNext = "ERREUR"
                        /\ session_state' = session_state]_vars

\* a transfer resumed at offset 1 after a failed UPLOAD_DATA
C10_Witness ==
    /\ Tok = "RESUME_UPLOAD_OK"
    /\ out[1].off = 1
    /\ ~session_state.error_flag
    /\ session_state.transfer_in_progress
    /\ session_state.transfer_offset = 1

\* ------------------------------------------------- properties of downloads
\* the bytes of content from position n on
FromOffset(content, n) ==
    IF n >= Len(content) THEN <<>> ELSE SubSeq(content, n + 1, Len(content))

IsPrefix(p, c) == Len(p) <= Len(c) /\ SubSeq(c, 1, Len(p)) = p

\* the lines of a stream between its first and its last
Middle(stream) == SubSeq(stream, 2, Len(stream) - 1)

\* a CHUNK line of at most BLOCK_SIZE bytes
IsChunk(line) ==
    /\ line.tok = "CHUNK"
    /\ FromHex(line.body).ok
    /\ Len(FromHex(line.body).bytes) <= BLOCK_SIZE

\* the bytes the CHUNK lines carry, in their order
RECURSIVE DecodedChunks(_)
DecodedChunks(lines) ==
    IF lines = <<>> THEN <<>>
    ELSE FromHex(lines[1].body).bytes \o DecodedChunks(Tail(lines))

\* a step in which the server handles the DOWNLOAD of download_file for a
\* file that exists
Served ==
    /\ connected
    /\ client'.requests = client.requests + 1
    /\ Exists(dir, client.name)

\* what the stream of such a step starts with, and the bytes asked for
StreamStartsRight ==
    /\ Len(out') >= 2
    /\ out'[1] = Resp("DOWNLOAD_READY", "", client.name, LocalSize(local), <<>>)
    /\ \A i \in 2..(Len(out') - 1) : IsChunk(out'[i])

Asked == FromOffset(data[client.name], LocalSize(local))

\* C16 as stated: a DOWNLOAD of an existing file is answered by DOWNLOAD_READY
\* name offset=N, CHUNK lines of at most BLOCK_SIZE bytes that decode to the
\* bytes of the file from N to its end, and DOWNLOAD_END, in this order and
\* with nothing else; every stream that starts with DOWNLOAD_READY ends with
\* DOWNLOAD_END.
C16_StreamEndsWithDownloadEnd ==
    [][Served => /\ StreamStartsRight
                 /\ out'[Len(out')].tok = "DOWNLOAD_END"
                 /\ DecodedChunks(Middle(out')) = Asked]_vars

\* C16, amended: the stream is DOWNLOAD_READY name offset=N, CHUNK lines of at
\* most BLOCK_SIZE bytes, and then DOWNLOAD_END after the bytes of the file
\* from N to its end when every read succeeded, or one ERREUR line after the
\* bytes read so far when a read failed.
C16_StreamOfWhatWasRead ==
    [][Served => /\ StreamStartsRight
                 /\ IF out'[Len(out')].tok = "DOWNLOAD_END"
                    THEN DecodedChunks(Middle(out')) = Asked
                    ELSE /\ out'[Len(out')].tok = "ERREUR"
                         /\ IsPrefix(DecodedChunks(Middle(out')), Asked)]_vars

\* a stream of two CHUNK lines between DOWNLOAD_READY and DOWNLOAD_END
C16_Witness ==
    /\ Tok = "DOWNLOAD_READY"
    /\ Len(out) = 4
    /\ out[2].tok = "CHUNK" /\ out[3].tok = "CHUNK"
    /\ out[4].tok = "DOWNLOAD_END"
    /\ client.requests > 0

\* C17: one call of download_file sends at most max_attempts DOWNLOAD requests,
\* every interruption of a stream (a failed read, an unexpected line, a closed
\* connection) using up one of its attempts.
C17_AtMostFiveRequests == client.requests <= max_attempts

\* a step in which download_file sends a DOWNLOAD request
Requested == client'.requests = client.requests + 1

\* C18: every DOWNLOAD request of download_file carries the size the local
\* file has at that moment (0 when there is none); the server streams the
\* file from exactly that offset and keeps nothing of the request: its
\* session and its files are what they were.
C18_RequestCarriesLocalSize ==
    [][Requested =>
        /\ client'.offset = (IF local.exists THEN Len(local.bytes) ELSE 0)
        /\ (connected /\ Exists(dir, client.name)) =>
              /\ out'[1] = Resp("DOWNLOAD_READY", "", client.name, client'.offset, <<>>)
              /\ IsPrefix(DecodedChunks(Middle(out')),
                          FromOffset(data[client.name], client'.offset))
              /\ out'[Len(out')].tok = "DOWNLOAD_END" =>
                    DecodedChunks(Middle(out')) =
                        FromOffset(data[client.name], client'.offset)
        /\ <<session_state, dir, data, fobj, leaked>>' =
              <<session_state, dir, data, fobj, leaked>>]_vars

\* a second request of one call, made when the local file has bytes, and
\* answered with the bytes after them
C18_Witness ==
    /\ client.pc = "stream"
    /\ client.requests >= 2
    /\ client.offset > 0
    /\ client.offset = Len(local.bytes)
    /\ Len(out) >= 3
    /\ out[1].tok = "DOWNLOAD_READY" /\ out[1].off = client.offset
    /\ out[2].tok = "CHUNK"

\* ------------------------------------------- properties of download_data
\* the chunk download_data is called with, decoded
Chunk == FromHex(wire[1].body)

\* C19: download_data given a chunk of n bytes in valid hexadecimal and the
\* offset o writes these bytes into the local file at position o, whatever
\* the size of the file, and returns DOWNLOAD_DATA_OK with the offset o + n.
C19_WritesAtOffset ==
    [][(download_data_call /\ Chunk.ok) =>
          /\ client'.result = "DOWNLOAD_DATA_OK"
          /\ client'.offset = client.offset + Len(Chunk.bytes)
          /\ local'.exists
          /\ local'.bytes = WriteAt(local.bytes, client.offset, Chunk.bytes)]_vars

\* C20: download_data given a chunk that is not valid hexadecimal returns a
\* message that starts with DOWNLOAD_ERROR, returns the offset it was given,
\* and leaves the local file as it was.
C20_InvalidHexChangesNothing ==
    [][(download_data_call /\ ~Chunk.ok) =>
          /\ client'.result = "DOWNLOAD_ERROR"
          /\ client'.offset = client.offset
          /\ local' = local]_vars

\* download_data has refused "ZZZ" at offset 1 of a local file of two bytes
C20_Witness ==
    /\ client.pc = "returned"
    /\ client.result = "DOWNLOAD_ERROR"
    /\ wire = <<Resp("CHUNK", "", None, -1, <<"Z", "Z", "Z">>)>>
    /\ client.offset = 1
    /\ local = LocalFile(Letters(2))

\* --------------------------------------------- properties of upload_file
\* upload_file has returned after UPLOAD_END
Ended == client.pc = "returned" /\ client.result = "ended"

\* C12: a file uploaded in two passes, the first one cut when the server held
\* N of its bytes and the second one resuming from the offset N the server
\* reports, is on the server byte for byte what one pass without a cut
\* leaves there, the local file, for every N.
C12_TwoPassesEqualOne ==
    (Ended /\ connected /\ client.name = "a") => data["a"] = local.bytes

\* a second pass that resumed at byte 1 of a file of two bytes, and ended
C12_Witness ==
    /\ Ended
    /\ client.cuts = 1
    /\ client.requests = 1
    /\ client.start = 1
    /\ client.name = "a"
    /\ Tok = "UPLOAD_END_OK"
    /\ local.bytes = Letters(2)
    /\ data["a"] = Letters(2)

\* C13: when upload_file has completed, the server's bytes for the name are
\* the bytes of the local file (and download_file of the name to a new path
\* gives them back).
C13_UploadedEqualsLocal ==
    (Ended /\ Tok = "UPLOAD_END_OK" /\ client.name = "a") => data["a"] = local.bytes

\* C15: in every attempt the first UPLOAD_DATA carries the bytes of the local
\* file from the offset the server reported in this attempt's UPLOAD_READY or
\* UPLOAD_RESUME, and every following chunk starts where the one before it
\* ended.
C15_ChunksFromReportedOffset ==
    [][/\ (client.pc = "upload" /\ client'.pc = "data") => client'.pos = out'[1].off
       /\ (client.pc = "data" /\ connected /\ TokNext = "UPLOAD_DATA_OK"
             /\ client.name \in Names /\ fobj.at = client.name) =>
             /\ client'.pos > client.pos
             /\ data'[client.name] =
                   data[client.name] \o SubSeq(local.bytes, client.pos + 1, client'.pos)]_vars

\* a step of upload_file itself
UploadStep ==
    /\ client.pc \in {"upload", "data"}
    /\ client' # client
    /\ client'.cuts = client.cuts

\* an attempt of upload_file fails in this step: UPLOAD is answered ERREUR, a
\* chunk is answered UPLOAD_ERROR, the local file cannot be opened, or the
\* connection is closed
AttemptFails ==
    /\ UploadStep
    /\ client.attempt < max_attempts
    /\ \/ client.pc = "upload" /\ (~local.exists \/ ~connected \/ TokNext = "ERREUR")
       \/ client.pc = "data" /\ (~connected \/ TokNext = "UPLOAD_ERROR")

\* the step counts one attempt and goes back to the top of the outer loop
Retries == client'.attempt = client.attempt + 1 /\ client'.pc = "upload"

\* what is left of one call of upload_file: the attempts, and within an
\* attempt the bytes of the local file
Weight == Len(local.bytes) + 3

Rank(c) ==
    IF c.pc = "upload" THEN (max_attempts - c.attempt) * Weight + Weight - 1
    ELSE IF c.pc = "data"
    THEN (max_attempts - c.attempt) * Weight + 1
         + (IF c.pos < Len(local.bytes) THEN Len(local.bytes) - c.pos ELSE 0)
    ELSE 0

C11_ResumedUploadIsAllChunks ==
    (client.pc = "returned" /\ client.result = "ended" /\ client.attempt > 0
        /\ Tok = "UPLOAD_END_OK")
    => data[client.name] = local.bytes

\* a transfer is active and not in error
TransferRuns == session_state.transfer_in_progress /\ ~session_state.error_flag

TransferRunsNext == session_state'.transfer_in_progress /\ ~session_state'.error_flag

\* C21 as stated: from a state in which a transfer is active and error_flag
\* is clear to the next such state of the session, a repeated UPLOAD
\* included, transfer_offset does not get smaller.
C21_OffsetNeverDecreases ==
    [][(connected /\ connected' /\ TransferRuns /\ TransferRunsNext)
          => session_state'.transfer_offset >= session_state.transfer_offset]_vars

\* C21, amended: within a session transfer_offset gets smaller by no command
\* but UPLOAD, in error or not.  UPLOAD starts a transfer of its own: it sets
\* transfer_offset to the size the named file has at that moment, 0 for a
\* file that is new, was removed or was truncated, and reports that offset.
C21_OffsetDecreasesOnlyByUpload ==
    [][(connected /\ connected')
          => /\ session_state'.transfer_offset < session_state.transfer_offset
                   => TokNext \in {"UPLOAD_READY", "UPLOAD_RESUME"}
             /\ (TokNext \in {"UPLOAD_READY", "UPLOAD_RESUME"} /\ out' # out)
                   => /\ session_state'.transfer_offset = out'[1].off
                      /\ out'[1].off = Len(data[out'[1].name])
                      /\ TokNext = "UPLOAD_READY" <=> out'[1].off = 0]_vars

\* an UPLOAD repeated in one session has started a transfer at offset 0, the
\* file object of the transfer before it still open
C21_Witness ==
    /\ Tok = "UPLOAD_READY"
    /\ TransferRuns
    /\ session_state.transfer_offset = 0
    /\ leaked > 0
    /\ dir["a"]

\* C22: READ in a session that has a file open answers READ_OK with the
\* content of that file (as cmd_read displays it, white space at both ends
\* removed).
C22_ReadAnswersContent ==
    [][\A parts \in LinesOf("READ") :
          (session_state.open_file # None /\ cmd_read(parts))
             => /\ TokNext = "READ_OK"
                /\ out'[1].body = Strip(data[session_state.open_file])]_vars

\* text d is part of text c
Contains(c, d) ==
    \E i \in 0..Len(c) : i + Len(d) <= Len(c) /\ SubSeq(c, i + 1, i + Len(d)) = d

\* C23: after a CREATE answered CREATE_OK, in whatever state the session was,
\* WRITE of some data (the words after the verb) answers WRITE_OK, the READ
\* that follows answers READ_OK with a content that contains the data, and
\* the CLOSE that follows answers CLOSE_OK, clears open_file and sets the
\* phase to ASSOCIATED.
C23_CreateWriteReadClose ==
    [][/\ (client.pc = "created" /\ client'.pc = "written")
            => /\ TokNext = "WRITE_OK"
               /\ out'[1].name = client.name
       /\ (client.pc = "written" /\ client'.pc = "read")
            => /\ TokNext = "READ_OK"
               /\ Contains(out'[1].body, local.bytes)
       /\ (client.pc = "read" /\ client'.pc = "closed")
            => /\ TokNext = "CLOSE_OK"
               /\ session_state'.open_file = None
               /\ session_state'.phase = "ASSOCIATED"]_vars

\* the four commands have run in a session that has a transfer in progress,
\* and the file holds the data and the newline WRITE adds
C23_Witness ==
    /\ client.pc = "closed"
    /\ Tok = "CLOSE_OK"
    /\ session_state.open_file = None
    /\ session_state.transfer_in_progress
    /\ local.bytes = <<72>>
    /\ data[client.name] = <<72, NL>>

\* C24: OPEN of a name that does not exist is answered ERREUR and changes
\* neither the session nor the directory: a session in phase ASSOCIATED with
\* no open file is left in phase ASSOCIATED with no open file.
C24_OpenNonexistent ==
    [][\A parts \in LinesOf("OPEN") :
          (Len(parts) >= 2 /\ ~Exists(dir, parts[2]) /\ cmd_open(parts))
             => /\ TokNext = "ERREUR"
                /\ session_state' = session_state
                /\ session_state.phase = "ASSOCIATED"
                      => /\ session_state'.phase = "ASSOCIATED"
                         /\ session_state'.open_file = None
                /\ ~Exists(dir', parts[2])]_vars

\* OPEN a has been refused for the missing file, in a session that has no
\* open file and is in phase ASSOCIATED
C24_Witness ==
    /\ Tok = "ERREUR"
    /\ out[1].detail = "Le fichier n'existe pas"
    /\ ~dir["a"]
    /\ session_state.phase = "ASSOCIATED"
    /\ session_state.open_file = None

\* the verbs of the protocol, and the arguments each of them requires
ProtocolVerbs == Verbs \cup {"DOWNLOAD"}

Required(verb) ==
    IF verb = "RENAME" THEN 2
    ELSE IF verb \in {"OPEN", "CREATE", "DELETE", "WRITE", "UPLOAD", "UPLOAD_DATA",
                      "DOWNLOAD"} THEN 1
    ELSE 0

\* a line with no verb of the protocol, or with too few arguments for its verb
Malformed(parts) ==
    IF parts = <<>> THEN TRUE
    ELSE IF parts[1] \notin ProtocolVerbs THEN TRUE
    ELSE Len(parts) - 1 < Required(parts[1])

\* this step is handle_client's turn for the line
Handles(parts) ==
    IF IsDownload(parts) THEN \E reads \in 0..(MaxLen + 1) : cmd_download(parts, reads)
    ELSE IF Unknown(parts) THEN cmd_unknown(parts)
    ELSE IF parts[1] = "OPEN" THEN cmd_open(parts)
    ELSE IF parts[1] = "CREATE" THEN cmd_create(parts)
    ELSE IF parts[1] = "RENAME" THEN cmd_rename(parts)
    ELSE IF parts[1] = "DELETE" THEN cmd_delete(parts)
    ELSE IF parts[1] = "WRITE" THEN cmd_write(parts)
    ELSE IF parts[1] = "UPLOAD" THEN \E collect \in BOOLEAN : cmd_begin_upload(parts, collect)
    ELSE IF parts[1] = "UPLOAD_DATA"
    THEN \E persisted \in 0..MaxLen, raises \in BOOLEAN :
            cmd_upload_data(parts, persisted, raises)
    ELSE FALSE

\* C25: a line whose verb is not a verb of the protocol, or that lacks an
\* argument its verb requires, is answered by one ERREUR line and leaves the
\* session as it was.
C25_MalformedLineIsErreur ==
    [][\A parts \in Lines :
          (Malformed(parts) /\ Handles(parts))
             => /\ out' = <<Erreur(out'[1].detail)>>
                /\ session_state' = session_state]_vars

\* the outcome the directory alone gives a DOWNLOAD line
Streams(parts) ==
    /\ Len(parts) >= 2
    /\ Exists(dir, parts[2])
    /\ Len(parts) > 2 => ParseInt(parts[3]).ok /\ ParseInt(parts[3]).val >= 0

\* C26: a DOWNLOAD line is handled the same in every phase, with or without
\* an open file, a transfer or an error: it streams when the file exists and
\* the offset is a natural number and is answered ERREUR otherwise, and it
\* leaves the session dictionary, the transfer's file object and the files
\* as they were.
C26_DownloadLeavesTheSession ==
    [][(client.pc = "idle" /\ client'.pc = "downloaded")
          => /\ session_state' = session_state
             /\ fobj' = fobj
             /\ leaked' = leaked
             /\ dir' = dir /\ data' = data
             /\ connected'
             /\ TokNext = IF Streams(wire'[1]) THEN "DOWNLOAD_READY" ELSE "ERREUR"]_vars

\* a file streamed to its end in a session that has a file open and a
\* transfer in error
C26_Witness ==
    /\ client.pc = "downloaded"
    /\ Tok = "DOWNLOAD_READY"
    /\ Len(out) >= 3
    /\ out[Len(out)].tok = "DOWNLOAD_END"
    /\ session_state.phase = "TRANSFER_IN_PROGRESS"
    /\ session_state.open_file # None
    /\ session_state.error_flag

\* what world w holds of session i: its thread, less the lines it has
\* answered, and its file
Part(w, i) ==
    [connected |-> w.session.connected, session_state |-> w.session.session_state,
     fobj |-> w.session.fobj, leaked |-> w.session.leaked,
     exists |-> w.dir[FileOf(i)], content |-> w.data[FileOf(i)]]

\* the tokens of an answer
Toks(o) == [k \in DOMAIN o |-> o[k].tok]

\* the directory both sessions work in, seen from the thread of session i
Shared(i) ==
    [session |-> IF others.turn = i THEN ThisSession ELSE others.peer,
     dir |-> dir, data |-> data]

\* C27: with two sessions working on files of different names, no line of
\* one session changes the other session's state or file, every line leaves
\* the session that sent it, and its file, as the same line does when the
\* session is alone on the server, with the same answer (the listing apart,
\* which names the files of both), and so does every file at the end.
C27_SessionsDoNotInterfere ==
    [][/\ (others.pc = "run" /\ others'.pc = "ran")
            => /\ others'.peer = others.peer
               /\ dir'[FileOf(3 - others.turn)] = dir[FileOf(3 - others.turn)]
               /\ data'[FileOf(3 - others.turn)] = data[FileOf(3 - others.turn)]
       /\ others'.pc = "replayed"
            => /\ Part(ThisWorld, others.turn)' = Part(others.held, others.turn)'
               /\ Toks(out') = Toks(others'.held.session.out)
               /\ Line'[1] # "LIST" => out' = others'.held.session.out
       /\ others'.pc = "run"
            => \A i \in {1, 2} : Part(Shared(i), i)' = Part(others.alone[i], i)'
      ]_vars

\* the first session has written its file and closed it while the second
\* session's transfer, of which a part is on disk, met an error
C27_Witness ==
    /\ others.pc = "run"
    /\ others.turn = 1
    /\ others.script = <<1, 2>>
    /\ others.sent = <<4, 3>>
    /\ dir["a"] /\ data["a"] = <<72, NL>>
    /\ dir["offset=1"] /\ Len(data["offset=1"]) > 0
    /\ others.peer.session_state.error_flag
    /\ others.alone[2].session.session_state.error_flag

\* C28: whenever upload_file returns after sending every chunk and
\* UPLOAD_END over its connection, the response to that UPLOAD_END was
\* UPLOAD_END_OK, transfer_in_progress is false and the transfer's file
\* object is closed, also when an earlier attempt of the call received
\* UPLOAD_ERROR.
C28_ReturnMeansEndOk ==
    [][(connected /\ client.pc = "data" /\ client'.pc = "returned"
           /\ client'.result = "ended")
          => /\ TokNext = "UPLOAD_END_OK"
             /\ ~session_state'.transfer_in_progress
             /\ session_state'.transfer_file = None
             /\ fobj' = NoFile]_vars

\* C29, as stated: in every reachable session state the phase agrees with
\* the fields it summarises: it is TRANSFER_IN_PROGRESS exactly when
\* transfer_in_progress is true, FILE_OPEN implies open_file is set and
\* ASSOCIATED implies open_file is unset.
C29_PhaseAgreesWithFields ==
    connected =>
        /\ (session_state.phase = "TRANSFER_IN_PROGRESS")
              <=> session_state.transfer_in_progress
        /\ session_state.phase = "FILE_OPEN" => session_state.open_file # None
        /\ session_state.phase = "ASSOCIATED" => session_state.open_file = None

\* C29: in every reachable session state, phase TRANSFER_IN_PROGRESS implies
\* that transfer_in_progress is true and phase ASSOCIATED implies that
\* open_file is unset; a transfer may be in progress in any phase, and in
\* phase FILE_OPEN open_file may be unset.
C29_PhaseImpliesFields ==
    connected =>
        /\ session_state.phase = "TRANSFER_IN_PROGRESS"
              => session_state.transfer_in_progress
        /\ session_state.phase = "ASSOCIATED" => session_state.open_file = None

\* a CLOSE during a transfer has set the phase to ASSOCIATED
C29_Witness ==
    /\ connected
    /\ Tok = "CLOSE_OK"
    /\ session_state.phase = "ASSOCIATED"
    /\ session_state.open_file = None
    /\ session_state.transfer_in_progress
    /\ session_state.transfer_file # None

\* C30: in every reachable session state, error_flag set implies that a
\* transfer is in progress and that its file object is there and open, and
\* no line has been answered "ERREUR: Fichier de transfert non ouvert".
C30_ErrorFlagWithinTransfer ==
    connected =>
        /\ session_state.error_flag
              => /\ session_state.transfer_in_progress
                 /\ session_state.transfer_file # None
                 /\ fobj # NoFile
        /\ \A k \in DOMAIN out : out[k].detail # "Fichier de transfert non ouvert"

\* an UPLOAD_END has met error_flag and left the transfer as it was
C30_Witness ==
    /\ connected
    /\ Tok = "UPLOAD_INTERRUPTED"
    /\ session_state.error_flag
    /\ session_state.transfer_in_progress
    /\ session_state.transfer_file # None
    /\ fobj # NoFile

\* C31: once an UPLOAD_DATA has failed and error_flag is set, the server
\* accepts no further UPLOAD_DATA until a RESUME_UPLOAD has cleared the
\* error: an UPLOAD_DATA handled with error_flag set writes nothing and
\* leaves transfer_offset where it was.
C31_NoDataWhileInError ==
    [][(connected /\ connected' /\ session_state.error_flag
           /\ TokNext \in {"UPLOAD_DATA_OK", "UPLOAD_ERROR"})
          => /\ data' = data
             /\ session_state'.transfer_offset = session_state.transfer_offset]_vars

\* C32: for every sequence of commands issued through send_command, the
\* value returned for a command is exactly the server's complete response
\* to that command: no bytes of the response to an earlier command, no
\* truncated part of a response, also for LIST and READ and for responses
\* longer than the block of recv.
C32_ReturnsTheResponse ==
    [][client'.pc = "answered" => client'.result = Encoded(out'[1])]_vars

====
